---- MODULE Spec2Model ----
\* Model of the yas-mcp protocol engine: the tool registry
\* (src/internal/mcp/registry.rs), the JSON-RPC processor
\* (src/internal/mcp/processor.rs), the per-tool handler
\* (src/internal/server/tool/handler.rs) and the transport runner
\* (src/internal/transport/runner.rs) driving a queue-backed transport
\* (src/internal/transport/mock.rs, src/internal/transport/stdio.rs).
\* Further specifications cover the HTTP endpoint POST /mcp
\* (src/internal/server/_server.rs), the executor of one route
\* (src/internal/requester/http_requester.rs) and the Adjuster
\* (src/internal/parser/adjuster.rs).
EXTENDS Integers, Sequences, FiniteSets, TLC

\* ---------------------------------------------------------------------
\* Bounds
\* ---------------------------------------------------------------------
MaxMsgs == 2

\* ---------------------------------------------------------------------
\* Option<T>: None is the empty tuple, Some(v) the one-element tuple
\* ---------------------------------------------------------------------
None == <<>>
Some(v) == <<v>>
is_some(o) == Len(o) = 1
is_none(o) == Len(o) = 0
unwrap(o) == o[1]

\* ---------------------------------------------------------------------
\* Input universe
\* ---------------------------------------------------------------------
\* compiled routes and the tool name each normalises to: r1 and r2 collide
Routes == {"r1", "r2", "r3"}
ToolNames == {"get_a", "get_b"}
ToolNameOf(r) == IF r = "r3" THEN "get_b" ELSE "get_a"
Methods == {"initialize", "notifications/initialized", "tools/list",
            "tools/call", "ping", "unknown/method"}
\* the "id" member of a raw message: not present, JSON null, or a value
RawIds == {"absent", "null", "1"}
\* the "params" member of a tools/call message: not present, a value that
\* is not a CallToolRequestParam, or {name, arguments?}
CallParams ==
    {[shape |-> "absent"], [shape |-> "invalid"],
     [shape |-> "call", name |-> "get_a", arguments |-> "absent"],
     [shape |-> "call", name |-> "get_b", arguments |-> "empty_map"]}
\* raw bytes the transport can deliver, by what serde makes of them:
\* not JSON at all, JSON lacking the required member "method", or a full
\* envelope. Envelopes come with an id and without one; an envelope whose
\* id is JSON null is represented by one message, since parse_request
\* maps null and absent to the same request.
RawMessages ==
    {[syntax |-> s] : s \in {"not_json", "no_method"}}
    \cup {[syntax |-> "envelope", id |-> i, method |-> m,
           params |-> [shape |-> "absent"]] :
              i \in RawIds \ {"null"}, m \in Methods \ {"tools/call"}}
    \cup {[syntax |-> "envelope", id |-> "1", method |-> "tools/call",
           params |-> p] : p \in CallParams}
    \cup {[syntax |-> "envelope", id |-> "absent", method |-> "tools/call",
           params |-> p] : p \in {q \in CallParams : q.shape = "call"}}
    \cup {[syntax |-> "envelope", id |-> "null", method |-> "tools/list",
           params |-> [shape |-> "absent"]]}

\* backend HTTP replies: status code and body bytes (0x41 is ASCII 'A',
\* 0xFF is never valid UTF-8). The statuses are a 2xx, a non-2xx below
\* 400 and the first status at or above 400.
HttpResponses ==
    {[status_code |-> 200, body |-> <<65>>],
     [status_code |-> 304, body |-> <<>>],
     [status_code |-> 400, body |-> <<65, 255>>]}
\* outcome of awaiting a RouteExecutor: an HttpResponse or an anyhow error
\* the tasks that call into the Server concurrently
Tasks == {"t1", "t2"}
ExecOutcomes ==
    {[ok |-> TRUE, status_code |-> r.status_code, body |-> r.body] :
         r \in HttpResponses}
    \cup {[ok |-> FALSE]}

VARIABLES
    tools,      \* ToolRegistry.tools: entries [name, tool], one per key
    inputs,     \* transport: queued raw messages not yet read
    outputs,    \* transport: messages written so far
    pc,         \* position of TransportRunner::run
    input,      \* run: the message just read (Option)
    request,    \* run: the parsed request (Option)
    response,   \* run: the response about to be written (Option)
    lastReg,    \* history: per name, the tool of the latest register call
    consumed,   \* history: every message read_message returned, in order
    outSrc,     \* history: for each output, the index in consumed it answers
    invoked,    \* history: every executor invocation and what it returned
    replaced,   \* while wiring: what the latest HashMap::insert displaced
    exchange,   \* POST /mcp: the latest body received and the reply (Option)
    executor,   \* what build_route_executor returned and captured (Option)
    sent,       \* the latest invocation of the executor (Option)
    adjustments,\* Adjuster.adjustments
    answer,     \* the latest query put to the Adjuster and its value (Option)
    lastLoad,   \* history: the latest call of Adjuster::load (Option)
    doc,        \* SwaggerParser.doc (Option)
    route_tools,\* SwaggerParser.route_tools
    parses,     \* history: how many times init or parse_reader was called
    lastParse,  \* history: the latest call of init or parse_reader (Option)
    lock,       \* Server.tool_handler: the task holding the Mutex (Option)
    calls       \* per task: where it is in list_tools or call_tool

\* the state of the registry, the transport and TransportRunner::run
runVars == <<tools, inputs, outputs, pc, input, request, response,
             lastReg, consumed, outSrc, invoked, replaced>>
\* the state of the HTTP endpoint
httpVars == <<exchange>>
\* the state of one route's executor
execVars == <<executor, sent>>
\* the state of the Adjuster
adjVars == <<adjustments, answer, lastLoad>>
\* the state of the SwaggerParser, apart from its Adjuster
parserVars == <<doc, route_tools, parses, lastParse>>
\* the state of the Mutex around the ToolHandler and of the tasks using it
lockVars == <<lock, calls>>
\* what a step of wiring or of TransportRunner::run leaves alone
outsideRun == <<httpVars, execVars, adjVars, parserVars, lockVars>>

vars == <<runVars, httpVars, execVars, adjVars, parserVars, lockVars>>

\* ---------------------------------------------------------------------
\* ToolRegistry (registry.rs): a map with one entry per key
\* ---------------------------------------------------------------------
\* mutant: insert adds an entry even when the key is already present
insert_always_appends(m, k, v) == Append(m, [name |-> k, tool |-> v])

\* HashMap::insert: replaces the value of an existing key, else adds one
insert(m, k, v) ==
    IF \E i \in 1..Len(m) : m[i].name = k
    THEN [i \in 1..Len(m) |-> IF m[i].name = k
                              THEN [name |-> k, tool |-> v] ELSE m[i]]
    ELSE Append(m, [name |-> k, tool |-> v])

\* ToolRegistry::register
register(m, name, tool) == insert(m, name, tool)

\* mutant: get hands out some registered tool whatever the name
get_ignores_name(m, name) ==
    IF m # <<>> THEN Some(m[1].tool) ELSE None

\* ToolRegistry::get
get(m, name) ==
    IF \E i \in 1..Len(m) : m[i].name = name
    THEN Some(m[CHOOSE i \in 1..Len(m) : m[i].name = name].tool)
    ELSE None

\* mutant: list_metadata leaves out the last entry
list_metadata_drops_last(m) ==
    [i \in 1..(IF Len(m) = 0 THEN 0 ELSE Len(m) - 1) |-> m[i].tool.metadata]

\* ToolRegistry::list_metadata
list_metadata(m) == [i \in 1..Len(m) |-> m[i].tool.metadata]

\* ToolRegistry::count
count(m) == Len(m)

\* RegisteredTool wired by Server::setup_tools for one compiled route: the
\* Tool metadata and the executor built for that route
RegisteredTool(name, route) ==
    [metadata |-> [name |-> name], executor |-> route]
RegisteredTools == {RegisteredTool(ToolNameOf(r), r) : r \in Routes}

\* ---------------------------------------------------------------------
\* ToolHandler::create_handler (handler.rs): the closure run per call
\* ---------------------------------------------------------------------
\* String::from_utf8_lossy over the byte alphabet of Bodies: an ASCII byte
\* is its own code point, an invalid byte becomes U+FFFD
from_utf8_lossy(body) ==
    [i \in 1..Len(body) |-> IF body[i] < 128 THEN body[i] ELSE 65533]

\* ToolHandler::convert_arguments_to_json: serde_json::to_string of the map
convert_arguments_to_json(arguments) ==
    IF arguments = "empty_map" THEN "{}" ELSE "{}"

\* the string handed to the RouteExecutor
executor_params(call_params) ==
    IF call_params.arguments # "absent"
    THEN convert_arguments_to_json(call_params.arguments)
    ELSE "{}"

text_content(text) == [type |-> "text", text |-> text]

\* mutant: the error test is `> 400`
create_handler_above_400(tool_name, call_params, outcome) ==
    IF ~outcome.ok
    THEN [ok |-> FALSE, error |-> "Failed to execute request for tool"]
    ELSE [ok |-> TRUE,
          value |-> [kind |-> "CallToolResult",
                     content |-> <<text_content(from_utf8_lossy(outcome.body))>>,
                     isError |-> outcome.status_code > 400]]

\* mutant: an HTTP error status is turned into a failure of the executor
create_handler_fails_on_error_status(tool_name, call_params, outcome) ==
    IF ~outcome.ok \/ outcome.status_code >= 400
    THEN [ok |-> FALSE, error |-> "Failed to execute request for tool"]
    ELSE [ok |-> TRUE,
          value |-> [kind |-> "CallToolResult",
                     content |-> <<text_content(from_utf8_lossy(outcome.body))>>,
                     isError |-> FALSE]]

\* the closure's result once the RouteExecutor has produced `outcome`
create_handler(tool_name, call_params, outcome) ==
    IF ~outcome.ok
    THEN [ok |-> FALSE, error |-> "Failed to execute request for tool"]
    ELSE IF outcome.status_code >= 400
    THEN [ok |-> TRUE,
          value |-> [kind |-> "CallToolResult",
                     content |-> <<text_content(from_utf8_lossy(outcome.body))>>,
                     isError |-> TRUE]]
    ELSE [ok |-> TRUE,
          value |-> [kind |-> "CallToolResult",
                     content |-> <<text_content(from_utf8_lossy(outcome.body))>>,
                     isError |-> FALSE]]

\* ---------------------------------------------------------------------
\* JSON-RPC envelopes (protocol.rs) and McpProcessor (processor.rs)
\* ---------------------------------------------------------------------
JsonRpcError(code, message) == [code |-> code, message |-> message]

JsonRpcResponse(id, result, error) ==
    [jsonrpc |-> "2.0", id |-> id, result |-> result, error |-> error]

\* McpMethod::from
McpMethod(s) ==
    CASE s = "initialize" -> "Initialize"
      [] s = "notifications/initialized" -> "Initialized"
      [] s = "tools/list" -> "ToolsList"
      [] s = "tools/call" -> "ToolsCall"
      [] s = "ping" -> "Ping"
      [] OTHER -> "Unknown"

\* McpProcessor::parse_request: serde fails on bytes that are not JSON and
\* on an object lacking the String members jsonrpc or method; an id that
\* is absent or null deserialises to None
parse_request(raw) ==
    IF raw.syntax # "envelope"
    THEN [ok |-> FALSE, error |-> "serde_json::Error"]
    ELSE [ok |-> TRUE,
          value |-> [jsonrpc |-> "2.0",
                     id |-> IF raw.id \in {"absent", "null"}
                            THEN None ELSE Some(raw.id),
                     method |-> raw.method,
                     params |-> raw.params]]

\* serde_json::from_value::<CallToolRequestParam>(params.unwrap_or_default())
call_params_ok(params) == params.shape = "call"

\* McpProcessor::process_request. `outcome` is what the backend answers if
\* the request reaches a RouteExecutor. The value is the response together
\* with the executor invocations made while computing it.
process_request(reg, req, outcome) ==
    LET m == McpMethod(req.method) IN
    CASE m = "Initialize" ->
           [response |-> JsonRpcResponse(req.id, Some([kind |-> "ServerInfo"]), None),
            executed |-> <<>>]
      [] m = "Initialized" ->
           [response |-> JsonRpcResponse(None, None, None),
            executed |-> <<>>]
      [] m = "ToolsList" ->
           [response |-> JsonRpcResponse(req.id,
                             Some([kind |-> "ListToolsResult",
                                   tools |-> list_metadata(reg)]), None),
            executed |-> <<>>]
      [] m = "ToolsCall" ->
           IF call_params_ok(req.params)
           THEN IF is_some(get(reg, req.params.name))
                THEN LET tool == unwrap(get(reg, req.params.name))
                         res == create_handler(req.params.name, req.params, outcome)
                     IN [response |->
                             IF res.ok
                             THEN JsonRpcResponse(req.id, Some(res.value), None)
                             ELSE JsonRpcResponse(req.id, None,
                                      Some(JsonRpcError(-32000, res.error))),
                         executed |-> <<[name |-> req.params.name,
                                         executor |-> tool.executor,
                                         params |-> executor_params(req.params),
                                         outcome |-> outcome]>>]
                ELSE [response |-> JsonRpcResponse(req.id, None,
                                       Some(JsonRpcError(-32601, "Tool not found"))),
                      executed |-> <<>>]
           ELSE [response |-> JsonRpcResponse(req.id, None,
                                  Some(JsonRpcError(-32602, "Invalid params"))),
                 executed |-> <<>>]
      [] m = "Ping" ->
           [response |-> JsonRpcResponse(req.id, Some([kind |-> "Empty"]), None),
            executed |-> <<>>]
      [] OTHER ->
           [response |-> JsonRpcResponse(req.id, None,
                             Some(JsonRpcError(-32601, "Method not found"))),
            executed |-> <<>>]

\* McpProcessor::serialize_response: result and error are omitted when
\* None (skip_serializing_if), id is always written, null when None
serialize_response(resp) ==
    [jsonrpc |-> resp.jsonrpc,
     id |-> IF is_some(resp.id) THEN unwrap(resp.id) ELSE "null"]
    @@ (IF is_some(resp.result) THEN [result |-> unwrap(resp.result)] ELSE <<>>)
    @@ (IF is_some(resp.error) THEN [error |-> unwrap(resp.error)] ELSE <<>>)

\* ---------------------------------------------------------------------
\* TransportRunner::run (runner.rs): the pieces of one loop iteration
\* ---------------------------------------------------------------------
\* mutant: the parse failure is reported as -32600 (invalid request)
parse_error_response_invalid_request(e) ==
    JsonRpcResponse(None, None, Some(JsonRpcError(-32600, "Invalid Request")))

\* the response run synthesises when parse_request fails
parse_error_response(e) ==
    JsonRpcResponse(None, None, Some(JsonRpcError(-32700, "Parse error")))

\* mutant: run writes the processor's response for every request
should_respond_always(req) == TRUE

\* mutant: the test on the id is inverted
should_respond_inverted(req) == is_none(req.id)

\* run writes the processor's response only for a request with an id
should_respond(req) == is_some(req.id)

\* ---------------------------------------------------------------------
\* State machine
\* ---------------------------------------------------------------------
Init ==
    /\ tools = <<>>
    /\ inputs = <<>>
    /\ outputs = <<>>
    /\ pc = "setup"
    /\ input = None
    /\ request = None
    /\ response = None
    /\ lastReg = [n \in ToolNames |-> None]
    /\ consumed = <<>>
    /\ outSrc = <<>>
    /\ invoked = <<>>
    /\ replaced = None
    /\ exchange = None
    /\ executor = None
    /\ sent = None
    /\ adjustments = [descriptions |-> <<>>, routes |-> <<>>]
    /\ answer = None
    /\ lastLoad = None
    /\ doc = None
    /\ route_tools = <<>>
    /\ parses = 0
    /\ lastParse = None
    /\ lock = None
    /\ calls = [t \in Tasks |-> [pc |-> "idle"]]

\* Server::setup_tools, one iteration: register the tool of one compiled
\* route under its own name. Only happens before the run loop starts.
Register ==
    /\ pc = "setup"
    /\ \E tool \in RegisteredTools :
          /\ tools' = register(tools, tool.metadata.name, tool)
          /\ lastReg' = [lastReg EXCEPT ![tool.metadata.name] = Some(tool)]
          /\ replaced' = get(tools, tool.metadata.name)
    /\ UNCHANGED <<inputs, outputs, pc, input, request, response,
                   consumed, outSrc, invoked>>
    /\ UNCHANGED outsideRun

\* MockTransport::queue_input: a client message waiting to be read
QueueInput ==
    /\ pc = "setup"
    /\ Len(inputs) < MaxMsgs
    /\ \E raw \in RawMessages : inputs' = Append(inputs, raw)
    /\ UNCHANGED <<tools, outputs, pc, input, request, response,
                   lastReg, consumed, outSrc, invoked, replaced>>
    /\ UNCHANGED outsideRun

\* wiring is over and TransportRunner::run is entered
StartRun ==
    /\ pc = "setup"
    /\ pc' = "read"
    /\ replaced' = None
    /\ UNCHANGED <<tools, inputs, outputs, input, request, response,
                   lastReg, consumed, outSrc, invoked>>
    /\ UNCHANGED outsideRun

\* mutant: a failure of the executor is propagated out of run with `?`
\* instead of being answered
ReadMessage_fails_on_executor_error ==
    /\ pc = "read"
    /\ inputs # <<>>
    /\ inputs' = Tail(inputs)
    /\ consumed' = Append(consumed, Head(inputs))
    /\ LET parsed == parse_request(Head(inputs)) IN
         IF parsed.ok
         THEN \E outcome \in ExecOutcomes :
                 LET p == process_request(tools, parsed.value, outcome) IN
                 /\ invoked' = invoked \o
                        [i \in 1..Len(p.executed) |->
                            [src |-> Len(consumed) + 1] @@ p.executed[i]]
                 /\ IF p.executed # <<>> /\ ~outcome.ok
                    THEN /\ input' = Some(Head(inputs))
                         /\ request' = Some(parsed.value)
                         /\ response' = None
                         /\ pc' = "failed"
                    ELSE IF should_respond(parsed.value)
                    THEN /\ input' = Some(Head(inputs))
                         /\ request' = Some(parsed.value)
                         /\ response' = Some(p.response)
                         /\ pc' = "write"
                    ELSE /\ input' = None
                         /\ request' = None
                         /\ response' = None
                         /\ pc' = "read"
         ELSE /\ input' = Some(Head(inputs))
              /\ request' = None
              /\ response' = Some(parse_error_response(parsed.error))
              /\ pc' = "write"
              /\ UNCHANGED invoked
    /\ UNCHANGED <<tools, outputs, lastReg, outSrc, replaced>>
    /\ UNCHANGED outsideRun

\* mutant: run looks at the id first and does not process a request that
\* has none
ReadMessage_skips_notifications ==
    /\ pc = "read"
    /\ inputs # <<>>
    /\ inputs' = Tail(inputs)
    /\ consumed' = Append(consumed, Head(inputs))
    /\ LET parsed == parse_request(Head(inputs)) IN
         IF parsed.ok
         THEN \E outcome \in ExecOutcomes :
                 LET p == process_request(tools, parsed.value, outcome) IN
                 IF should_respond(parsed.value)
                 THEN /\ invoked' = invoked \o
                           [i \in 1..Len(p.executed) |->
                               [src |-> Len(consumed) + 1] @@ p.executed[i]]
                      /\ input' = Some(Head(inputs))
                      /\ request' = Some(parsed.value)
                      /\ response' = Some(p.response)
                      /\ pc' = "write"
                 ELSE /\ invoked' = invoked
                      /\ input' = None
                      /\ request' = None
                      /\ response' = None
                      /\ pc' = "read"
         ELSE /\ input' = Some(Head(inputs))
              /\ request' = None
              /\ response' = Some(parse_error_response(parsed.error))
              /\ pc' = "write"
              /\ UNCHANGED invoked
    /\ UNCHANGED <<tools, outputs, lastReg, outSrc, replaced>>
    /\ UNCHANGED outsideRun

\* run: read_message returned Ok(data). parse_request turns it into a
\* request, which process_request answers, or fails, which run answers
\* with the -32700 response. The response is then pending to be written,
\* unless the request has no id: then run loops without writing.
ReadMessage ==
    /\ pc = "read"
    /\ inputs # <<>>
    /\ inputs' = Tail(inputs)
    /\ consumed' = Append(consumed, Head(inputs))
    /\ LET parsed == parse_request(Head(inputs)) IN
         IF parsed.ok
         THEN \E outcome \in ExecOutcomes :
                 LET p == process_request(tools, parsed.value, outcome) IN
                 /\ invoked' = invoked \o
                        [i \in 1..Len(p.executed) |->
                            [src |-> Len(consumed) + 1] @@ p.executed[i]]
                 /\ IF should_respond(parsed.value)
                    THEN /\ input' = Some(Head(inputs))
                         /\ request' = Some(parsed.value)
                         /\ response' = Some(p.response)
                         /\ pc' = "write"
                    ELSE /\ input' = None
                         /\ request' = None
                         /\ response' = None
                         /\ pc' = "read"
         ELSE /\ input' = Some(Head(inputs))
              /\ request' = None
              /\ response' = Some(parse_error_response(parsed.error))
              /\ pc' = "write"
              /\ UNCHANGED invoked
    /\ UNCHANGED <<tools, outputs, lastReg, outSrc, replaced>>
    /\ UNCHANGED outsideRun

\* run: read_message returned Err(Closed): leave the loop, return Ok(())
ReadClosed ==
    /\ pc = "read"
    /\ inputs = <<>>
    /\ pc' = "done"
    /\ UNCHANGED <<tools, inputs, outputs, input, request, response,
                   lastReg, consumed, outSrc, invoked, replaced>>
    /\ UNCHANGED outsideRun

\* run: read_message returned another TransportError: return Err(e)
ReadError ==
    /\ pc = "read"
    /\ pc' = "failed"
    /\ UNCHANGED <<tools, inputs, outputs, input, request, response,
                   lastReg, consumed, outSrc, invoked, replaced>>
    /\ UNCHANGED outsideRun

\* mutant: after writing the parse-error response run leaves the loop
WriteMessage_breaks_after_parse_error ==
    /\ pc = "write"
    /\ outputs' = Append(outputs, serialize_response(unwrap(response)))
    /\ outSrc' = Append(outSrc, Len(consumed))
    /\ pc' = IF is_none(request) THEN "done" ELSE "read"
    /\ input' = None
    /\ request' = None
    /\ response' = None
    /\ UNCHANGED <<tools, inputs, lastReg, consumed, invoked,
                   replaced>>
    /\ UNCHANGED outsideRun

\* run: write_message and flush succeeded
WriteMessage ==
    /\ pc = "write"
    /\ outputs' = Append(outputs, serialize_response(unwrap(response)))
    /\ outSrc' = Append(outSrc, Len(consumed))
    /\ pc' = "read"
    /\ input' = None
    /\ request' = None
    /\ response' = None
    /\ UNCHANGED <<tools, inputs, lastReg, consumed, invoked,
                   replaced>>
    /\ UNCHANGED outsideRun

\* run: write_message or flush returned an error: `?` returns Err(e)
WriteError ==
    /\ pc = "write"
    /\ pc' = "failed"
    /\ UNCHANGED <<tools, inputs, outputs, input, request, response,
                   lastReg, consumed, outSrc, invoked, replaced>>
    /\ UNCHANGED outsideRun

Next ==
    \/ Register
    \/ QueueInput
    \/ StartRun
    \/ ReadMessage
    \/ ReadClosed
    \/ ReadError
    \/ WriteMessage
    \/ WriteError

Spec == Init /\ [][Next]_vars

\* ---------------------------------------------------------------------
\* HTTP mode (_server.rs): POST /mcp, one request and one reply
\* ---------------------------------------------------------------------
\* ToolHandler::get_executor over the tools wired by setup_tools
get_executor(m, name) ==
    IF is_some(get(m, name)) THEN Some(unwrap(get(m, name)).executor) ELSE None

\* ToolHandler::list_tool_metadata
list_tool_metadata(m) == list_metadata(m)

McpError(code, message) == [code |-> code, message |-> message]

\* Server::list_tools_simple
list_tools_simple(m) ==
    [ok |-> TRUE,
     value |-> [kind |-> "ListToolsResult", tools |-> list_tool_metadata(m)]]

\* mutant: an unknown tool is reported as invalid params
call_tool_simple_unknown_as_invalid(m, params, outcome) ==
    IF is_some(get_executor(m, params.name))
    THEN LET res == create_handler(params.name, params, outcome) IN
         IF res.ok
         THEN [ok |-> TRUE, value |-> res.value]
         ELSE [ok |-> FALSE, error |-> McpError(-32600, res.error)]
    ELSE [ok |-> FALSE, error |-> McpError(-32602, "Tool not found")]

\* Server::call_tool_simple: a failure of the executor becomes McpError
\* -32600, a name without executor McpError -32601
call_tool_simple(m, params, outcome) ==
    IF is_some(get_executor(m, params.name))
    THEN LET res == create_handler(params.name, params, outcome) IN
         IF res.ok
         THEN [ok |-> TRUE, value |-> res.value]
         ELSE [ok |-> FALSE, error |-> McpError(-32600, res.error)]
    ELSE [ok |-> FALSE, error |-> McpError(-32601, "Tool not found")]

\* axum's Json<Value> extractor: a body that is not JSON never reaches the
\* handler; any JSON value does
json_extract(raw) ==
    IF raw.syntax = "not_json"
    THEN [ok |-> FALSE, status |-> 400]
    ELSE [ok |-> TRUE, value |-> raw]

\* payload.get("method").and_then(|m| m.as_str())
payload_method(payload) ==
    IF payload.syntax = "envelope" THEN Some(payload.method) ELSE None

\* json!({"id": payload.get("id").cloned()}): null when there is none
payload_id(payload) ==
    IF payload.syntax = "envelope" /\ payload.id \notin {"absent", "null"}
    THEN payload.id ELSE "null"

\* payload.get("params") parsed as CallToolRequestParam, .ok()
payload_params(payload) ==
    IF payload.syntax = "envelope" /\ payload.params.shape = "call"
    THEN Some(payload.params) ELSE None

http_result(id, result) == [jsonrpc |-> "2.0", result |-> result, id |-> id]
http_error(id, code, message) ==
    [jsonrpc |-> "2.0", error |-> [code |-> code, message |-> message],
     id |-> id]

\* handle_mcp_request: the JSON-RPC envelope built for a payload; the
\* reply is always sent with StatusCode::OK
handle_mcp_request(m, payload, outcome) ==
    LET method == payload_method(payload)
        id == payload_id(payload)
        envelope ==
          CASE method = Some("initialize") ->
                 http_result(id, [kind |-> "ServerInfo"])
                     @@ [sessionId |-> "uuid"]
            [] method = Some("tools/list") ->
                 LET r == list_tools_simple(m) IN
                 IF r.ok THEN http_result(id, r.value)
                 ELSE http_error(id, r.error.code, r.error.message)
            [] method = Some("tools/call") ->
                 IF is_some(payload_params(payload))
                 THEN LET r == call_tool_simple(m,
                                   unwrap(payload_params(payload)), outcome) IN
                      IF r.ok THEN http_result(id, r.value)
                      ELSE http_error(id, r.error.code, r.error.message)
                 ELSE http_error(id, -32602, "Invalid params")
            [] method = Some("notifications/initialized") ->
                 http_result(id, [kind |-> "null"])
            [] method = Some("ping") ->
                 http_result(id, [kind |-> "Empty"])
            [] OTHER ->
                 http_error(id, -32601, "Method not found")
    IN [status |-> 200, body |-> Some(envelope)]

\* Server::serve_http: wiring is over and the router is serving
ServeHttp ==
    /\ pc = "setup"
    /\ pc' = "serve"
    /\ replaced' = None
    /\ UNCHANGED <<tools, inputs, outputs, input, request, response,
                   lastReg, consumed, outSrc, invoked>>
    /\ UNCHANGED outsideRun

\* POST /mcp with a body the Json extractor rejects: axum answers with the
\* rejection and handle_mcp_request is not called
JsonRejection ==
    /\ pc = "serve"
    /\ \E raw \in RawMessages :
          /\ ~json_extract(raw).ok
          /\ exchange' = Some([raw |-> raw, outcome |-> [ok |-> FALSE],
                               reply |-> [status |-> json_extract(raw).status,
                                          body |-> None]])
    /\ UNCHANGED <<parserVars, lockVars, runVars, execVars, adjVars>>

\* POST /mcp with a JSON body: handle_mcp_request answers it
HandleMcpRequest ==
    /\ pc = "serve"
    /\ \E raw \in RawMessages, outcome \in ExecOutcomes :
          /\ json_extract(raw).ok
          /\ exchange' = Some([raw |-> raw, outcome |-> outcome,
                               reply |-> handle_mcp_request(tools,
                                            json_extract(raw).value, outcome)])
    /\ UNCHANGED <<parserVars, lockVars, runVars, execVars, adjVars>>

NextHttp ==
    \/ Register
    \/ ServeHttp
    \/ JsonRejection
    \/ HandleMcpRequest

SpecHttp == Init /\ [][NextHttp]_vars

\* ---------------------------------------------------------------------
\* HttpRequester (http_requester.rs): one route's executor
\* ---------------------------------------------------------------------
\* mutant: the closure has a builder for HEAD as well
SupportedMethods_and_head == {"GET", "POST", "PUT", "DELETE", "PATCH", "HEAD"}

\* the methods build_route_executor's closure has a reqwest builder for
SupportedMethods == {"GET", "POST", "PUT", "DELETE", "PATCH"}
\* RouteConfig.method of the compiled routes; HEAD has no builder
RouteMethods == {"GET", "POST", "DELETE", "HEAD"}
\* RouteConfig.path, by segments; a placeholder fills a whole segment
RoutePaths == {<<"items", "{id}">>, <<"items">>}
EmptyMap == [k \in {} |-> ""]
\* RouteConfig.headers and EndpointConfig.headers; keys are compared as
\* the HashMap compares them, byte for byte
RouteHeaderSets ==
    {EmptyMap, ("Accept" :> "route"),
     ("Accept" :> "route") @@ ("X-Key" :> "route")}
EndpointHeaderSets ==
    {EmptyMap, ("Accept" :> "endpoint"),
     ("accept" :> "endpoint") @@ ("X-Key" :> "endpoint")}
\* MethodConfig.header_params and MethodConfig.query_params
HeaderParamLists == {<<>>, <<"token">>}
QueryParamLists == {<<>>, <<"sort">>, <<"sort", "token">>}
RouteConfigs ==
    {[path |-> p, method |-> m, headers |-> h,
      method_config |-> [header_params |-> hp, query_params |-> qp]] :
        p \in RoutePaths, m \in RouteMethods, h \in RouteHeaderSets,
        hp \in HeaderParamLists, qp \in QueryParamLists}
EndpointConfigs ==
    {[base_url |-> "http://api", headers |-> h] : h \in EndpointHeaderSets}

\* JSON values of the arguments: strings and numbers
Str(s) == [kind |-> "string", s |-> s]
Num(n) == [kind |-> "number", n |-> n]
\* the keys an argument object can have, in the order serde_json::Map
\* iterates them
ArgKeys == <<"extra", "id", "sort", "token">>
ArgObjects ==
    {EmptyMap,
     ("id" :> Str("5")),
     ("id" :> Str("5")) @@ ("sort" :> Str("asc")) @@ ("extra" :> Str("x")),
     ("id" :> Num(5)) @@ ("extra" :> Str("x")),
     ("id" :> Str("{sort}")) @@ ("sort" :> Str("asc")),
     ("token" :> Str("t")) @@ ("sort" :> Num(1)) @@ ("extra" :> Str("x"))}
\* the params_json strings handed to an executor: text that is not JSON,
\* JSON that is not an object, and objects
ParamsJson ==
    {[syntax |-> "invalid"]}
    \cup {[syntax |-> "json", value |-> [kind |-> k]] :
             k \in {"array", "string", "number", "null"}}
    \cup {[syntax |-> "json", value |-> [kind |-> "object", map |-> o]] :
             o \in ArgObjects}

\* mutant: the endpoint's default overrides the route's header
merge_headers_endpoint_wins(route_headers, endpoint_headers) ==
    [k \in DOMAIN route_headers \cup DOMAIN endpoint_headers |->
        IF k \in DOMAIN endpoint_headers
        THEN endpoint_headers[k] ELSE route_headers[k]]

\* static_headers = config.headers, then entry(key).or_insert(value) for
\* every header of service_cfg
merge_headers(route_headers, endpoint_headers) ==
    [k \in DOMAIN route_headers \cup DOMAIN endpoint_headers |->
        IF k \in DOMAIN route_headers
        THEN route_headers[k] ELSE endpoint_headers[k]]

\* HttpRequester::build_route_executor: what the closure captures. It
\* returns Ok for every RouteConfig.
build_route_executor(service_cfg, config) ==
    [ok |-> TRUE,
     value |-> [base_url |-> service_cfg.base_url,
                method |-> config.method,
                path |-> config.path,
                static_headers |-> merge_headers(config.headers,
                                                 service_cfg.headers),
                known_header_params |-> config.method_config.header_params,
                known_query_params |-> config.method_config.query_params]]

\* serde_json::from_str
from_str(params_json) ==
    IF params_json.syntax = "invalid"
    THEN [ok |-> FALSE, error |-> "Failed to parse parameters as JSON"]
    ELSE [ok |-> TRUE, value |-> params_json.value]

\* params_value.as_object().cloned().unwrap_or_default()
as_object_or_default(value) ==
    IF value.kind = "object" THEN value.map ELSE EmptyMap

\* format!("{{{}}}", key)
placeholder(key) == "{" \o key \o "}"

\* Map::remove
remove(m, k) == [x \in DOMAIN m \ {k} |-> m[x]]

\* val.as_str(), else val.to_string()
value_text(val) == IF val.kind = "string" THEN val.s ELSE ToString(val.n)

\* step 1: the loop over active_params substituting string values for
\* placeholders, from key number i on
RECURSIVE substitute_path(_, _, _, _)
substitute_path(url, used_keys, active_params, i) ==
    IF i > Len(ArgKeys)
    THEN [url |-> url, used_keys |-> used_keys]
    ELSE LET key == ArgKeys[i] IN
         IF /\ key \in DOMAIN active_params
            /\ active_params[key].kind = "string"
            /\ \E j \in 1..Len(url) : url[j] = placeholder(key)
         THEN substitute_path(
                  [j \in 1..Len(url) |->
                      IF url[j] = placeholder(key)
                      THEN active_params[key].s ELSE url[j]],
                  Append(used_keys, key), active_params, i + 1)
         ELSE substitute_path(url, used_keys, active_params, i + 1)

\* steps 4 and 5: the loop over a list of known names, removing each one
\* present from active_params and pairing it with its text
RECURSIVE take_known(_, _, _, _)
take_known(names, active_params, taken, i) ==
    IF i > Len(names)
    THEN [active_params |-> active_params, taken |-> taken]
    ELSE IF names[i] \in DOMAIN active_params
    THEN take_known(names, remove(active_params, names[i]),
                    Append(taken, <<names[i], value_text(active_params[names[i]])>>),
                    i + 1)
    ELSE take_known(names, active_params, taken, i + 1)

\* the pairs of a map in key order: request_builder.query(&active_params)
RECURSIVE map_pairs(_, _)
map_pairs(m, i) ==
    IF i > Len(ArgKeys) THEN <<>>
    ELSE IF ArgKeys[i] \in DOMAIN m
    THEN <<<<ArgKeys[i], value_text(m[ArgKeys[i]])>>>> \o map_pairs(m, i + 1)
    ELSE map_pairs(m, i + 1)

\* mutant: the keys substituted into the URL stay in the map
remove_used_keys_keeps_them(m, keys, i) == m

\* the loop removing used_keys from active_params, from key number i on
RECURSIVE remove_used_keys(_, _, _)
remove_used_keys(m, keys, i) ==
    IF i > Len(keys) THEN m
    ELSE remove_used_keys(remove(m, keys[i]), keys, i + 1)

\* mutant: what remains is sent as the JSON body whatever the method
remaining_params_always_body(method, active_params) ==
    IF active_params # EmptyMap
    THEN [query |-> <<>>, body |-> Some(active_params)]
    ELSE [query |-> <<>>, body |-> None]

\* step 6: what remains goes to the query for GET, to the JSON body
\* otherwise; nothing is added when nothing remains
remaining_params(method, active_params) ==
    IF active_params # EmptyMap
    THEN IF method = "GET"
         THEN [query |-> map_pairs(active_params, 1), body |-> None]
         ELSE [query |-> <<>>, body |-> Some(active_params)]
    ELSE [query |-> <<>>, body |-> None]

\* the closure of build_route_executor up to send(): the request it
\* builds, or the error it returns before building one. used_keys and
\* header_keys record which argument keys went to the URL and to headers.
build_request(exec, params_json) ==
    LET parsed == from_str(params_json) IN
    IF ~parsed.ok THEN [ok |-> FALSE, error |-> parsed.error]
    ELSE
    LET params0 == as_object_or_default(parsed.value)
        sub == substitute_path(<<exec.base_url>> \o exec.path, <<>>,
                               params0, 1)
        params1 == remove_used_keys(params0, sub.used_keys, 1)
    IN
    IF exec.method \notin SupportedMethods
    THEN [ok |-> FALSE, error |-> "Unsupported HTTP method"]
    ELSE
    LET hdr == take_known(exec.known_header_params, params1, <<>>, 1)
        qry == take_known(exec.known_query_params, hdr.active_params,
                          <<>>, 1)
        rest == remaining_params(exec.method, qry.active_params)
    IN [ok |-> TRUE,
        value |-> [method |-> exec.method,
                   url |-> sub.url,
                   headers |->
                       {<<k, exec.static_headers[k]>> :
                            k \in DOMAIN exec.static_headers}
                       \cup {hdr.taken[i] : i \in 1..Len(hdr.taken)},
                   query |-> qry.taken \o rest.query,
                   body |-> rest.body],
        used_keys |-> sub.used_keys,
        header_keys |-> {hdr.taken[i][1] : i \in 1..Len(hdr.taken)}]

\* Server::setup_tools: HttpRequester::build_route_executor for a route;
\* on Ok the executor is wrapped and registered
BuildRouteExecutor ==
    /\ executor = None
    /\ \E service_cfg \in EndpointConfigs, config \in RouteConfigs :
          LET built == build_route_executor(service_cfg, config) IN
          /\ built.ok
          /\ executor' = Some([config |-> config, service_cfg |-> service_cfg,
                               closure |-> built.value])
    /\ sent' = None
    /\ UNCHANGED <<parserVars, lockVars, runVars, httpVars, adjVars>>

\* the executor is invoked with params_json and stops before send(). The
\* closure keeps nothing from one invocation to the next, so each executor
\* is followed through one invocation.
ExecuteRejected ==
    /\ is_some(executor)
    /\ sent = None
    /\ \E params_json \in ParamsJson :
          LET b == build_request(unwrap(executor).closure, params_json) IN
          /\ ~b.ok
          /\ sent' = Some([params_json |-> params_json, request |-> None,
                           used_keys |-> <<>>, header_keys |-> {},
                           result |-> [ok |-> FALSE, error |-> b.error]])
    /\ UNCHANGED <<parserVars, lockVars, runVars, httpVars, adjVars, executor>>

\* the executor is invoked with params_json, sends the request it built
\* and returns the backend's response or the failure of send()
ExecuteSent ==
    /\ is_some(executor)
    /\ sent = None
    /\ \E params_json \in ParamsJson, outcome \in ExecOutcomes :
          LET b == build_request(unwrap(executor).closure, params_json) IN
          /\ b.ok
          /\ sent' = Some([params_json |-> params_json,
                           request |-> Some(b.value),
                           used_keys |-> b.used_keys,
                           header_keys |-> b.header_keys,
                           result |->
                               IF outcome.ok THEN outcome
                               ELSE [ok |-> FALSE,
                                     error |-> "Failed to execute HTTP request"]])
    /\ UNCHANGED <<parserVars, lockVars, runVars, httpVars, adjVars, executor>>

NextExec ==
    \/ BuildRouteExecutor
    \/ ExecuteRejected
    \/ ExecuteSent

SpecExec == Init /\ [][NextExec]_vars

\* ---------------------------------------------------------------------
\* Adjuster (adjuster.rs) over McpAdjustments (adjustments.rs)
\* ---------------------------------------------------------------------
\* a path is a stem that does not end in '/', then some trailing slashes
Path(stem, slashes) == [stem |-> stem, slashes |-> slashes]
\* the paths asked about
QueryPaths == {Path(st, n) : st \in {"/users", "/items"}, n \in 0..2}
\* the method strings asked about and configured
QueryMethods == {"GET", "get", "POST", "DELETE"}
RouteSelection(path, methods) == [path |-> path, methods |-> methods]
\* McpAdjustments.routes of the adjustment files
RouteSelectionLists ==
    {<<>>,
     <<RouteSelection(Path("/users", 0), <<"GET">>)>>,
     <<RouteSelection(Path("/users", 1), <<"get", "POST">>)>>,
     <<RouteSelection(Path("/users", 0), <<"POST">>),
       RouteSelection(Path("/users", 1), <<"GET">>)>>,
     <<RouteSelection(Path("/items", 0), <<"GET">>),
       RouteSelection(Path("/users", 0), <<"Get">>)>>,
     <<RouteSelection(Path("/users", 0), <<>>)>>}
RouteFieldUpdate(method, new_description) ==
    [method |-> method, new_description |-> new_description]
RouteDescription(path, updates) == [path |-> path, updates |-> updates]
\* McpAdjustments.descriptions of the adjustment files
RouteDescriptionLists ==
    {<<>>,
     <<RouteDescription(Path("/users", 0),
                        <<RouteFieldUpdate("GET", "new get")>>)>>,
     <<RouteDescription(Path("/users", 0),
                        <<RouteFieldUpdate("POST", "new post")>>),
       RouteDescription(Path("/users", 0),
                        <<RouteFieldUpdate("GET", "new get")>>)>>,
     <<RouteDescription(Path("/users", 1),
                        <<RouteFieldUpdate("get", "new lower")>>)>>,
     <<RouteDescription(Path("/users", 0),
                        <<RouteFieldUpdate("GET", "first"),
                          RouteFieldUpdate("GET", "second")>>)>>}
\* the adjustments the files hold: the two queries each read one of the
\* two lists, so the lists are varied one at a time, and once together
AdjustmentFiles ==
    {[descriptions |-> d, routes |-> <<>>] : d \in RouteDescriptionLists}
    \cup {[descriptions |-> <<>>, routes |-> r] : r \in RouteSelectionLists}
    \cup {[descriptions |->
               <<RouteDescription(Path("/users", 0),
                                  <<RouteFieldUpdate("GET", "new get")>>)>>,
           routes |-> <<RouteSelection(Path("/users", 0), <<"GET">>)>>]}
\* what a file can contain: text that is not YAML, nothing at all, or a
\* YAML mapping in which each of the two sections is present or absent
FileContents ==
    {[syntax |-> "not_yaml"], [syntax |-> "empty"]}
    \cup {[syntax |-> "yaml", routes |-> Some(f.routes),
           descriptions |-> Some(f.descriptions)] : f \in AdjustmentFiles}
    \cup {[syntax |-> "yaml",
           routes |-> Some(<<RouteSelection(Path("/users", 0), <<"GET">>)>>),
           descriptions |-> None],
          [syntax |-> "yaml", routes |-> None,
           descriptions |->
               Some(<<RouteDescription(Path("/users", 0),
                          <<RouteFieldUpdate("GET", "new get")>>)>>)],
          [syntax |-> "yaml", routes |-> None, descriptions |-> None]}
\* what load can be called with: the empty path, a path to nothing, a
\* path to a file that cannot be read, a path to a file
LoadInputs ==
    {[file_path |-> "empty"], [file_path |-> "missing"],
     [file_path |-> "unreadable"]}
    \cup {[file_path |-> "file", data |-> c] : c \in FileContents}

\* str::trim_end_matches('/'): every trailing slash goes
trim_end_matches(p) == Path(p.stem, 0)

\* str::to_uppercase over the method strings
to_uppercase(m) ==
    CASE m \in {"GET", "get", "Get"} -> "GET"
      [] m \in {"POST", "post"} -> "POST"
      [] OTHER -> m

\* Adjuster::exists_in_mcp: the loop over routes from entry i on
RECURSIVE exists_in_mcp_from(_, _, _, _)
exists_in_mcp_from(routes, route, method, i) ==
    IF i > Len(routes) THEN FALSE
    ELSE IF trim_end_matches(routes[i].path) = trim_end_matches(route)
    THEN \E j \in 1..Len(routes[i].methods) :
             to_uppercase(routes[i].methods[j]) = to_uppercase(method)
    ELSE exists_in_mcp_from(routes, route, method, i + 1)

\* Adjuster::exists_in_mcp
exists_in_mcp(adj, route, method) ==
    IF adj.routes = <<>> THEN TRUE
    ELSE exists_in_mcp_from(adj.routes, route, method, 1)

\* the inner loop of get_description over the updates of one entry, from
\* update j on; None when no update has the method
RECURSIVE find_update(_, _, _)
find_update(updates, method, j) ==
    IF j > Len(updates) THEN None
    ELSE IF updates[j].method = method
    THEN Some(updates[j].new_description)
    ELSE find_update(updates, method, j + 1)

\* mutant: an entry whose updates lack the method does not end the search
RECURSIVE get_description_from_no_break(_, _, _, _, _)
get_description_from_no_break(descriptions, route, method, original_desc, i) ==
    IF i > Len(descriptions) THEN original_desc
    ELSE IF descriptions[i].path = route
            /\ is_some(find_update(descriptions[i].updates, method, 1))
    THEN unwrap(find_update(descriptions[i].updates, method, 1))
    ELSE get_description_from_no_break(descriptions, route, method,
                                       original_desc, i + 1)

\* the outer loop of get_description from entry i on: the first entry with
\* the path decides
RECURSIVE get_description_from(_, _, _, _, _)
get_description_from(descriptions, route, method, original_desc, i) ==
    IF i > Len(descriptions) THEN original_desc
    ELSE IF descriptions[i].path = route
    THEN IF is_some(find_update(descriptions[i].updates, method, 1))
         THEN unwrap(find_update(descriptions[i].updates, method, 1))
         ELSE original_desc
    ELSE get_description_from(descriptions, route, method, original_desc,
                              i + 1)

\* Adjuster::get_description
get_description(adj, route, method, original_desc) ==
    IF adj.descriptions = <<>> THEN original_desc
    ELSE get_description_from(adj.descriptions, route, method,
                              original_desc, 1)

\* serde_yaml::from_str::<McpAdjustments>: both fields are plain Vec
\* without a serde default, so each must be present in the document
from_yaml(data) ==
    IF data.syntax = "yaml" /\ is_some(data.routes)
       /\ is_some(data.descriptions)
    THEN [ok |-> TRUE,
          value |-> [descriptions |-> unwrap(data.descriptions),
                     routes |-> unwrap(data.routes)]]
    ELSE [ok |-> FALSE, error |-> "Failed to parse YAML from adjustments file"]

\* mutant: a reload appends to what is loaded
assign_adjustments_merging(old, new) ==
    [descriptions |-> old.descriptions \o new.descriptions,
     routes |-> old.routes \o new.routes]

\* self.adjustments = adjustments
assign_adjustments(old, new) == new

\* mutant: a parse failure clears what is loaded
load_clears_on_parse_error(adj, src) ==
    IF src.file_path = "empty" THEN [ok |-> TRUE, adjustments |-> adj]
    ELSE IF src.file_path = "missing" THEN [ok |-> TRUE, adjustments |-> adj]
    ELSE IF src.file_path = "unreadable"
    THEN [ok |-> FALSE, adjustments |-> adj]
    ELSE IF ~from_yaml(src.data).ok
    THEN [ok |-> FALSE,
          adjustments |-> [descriptions |-> <<>>, routes |-> <<>>]]
    ELSE [ok |-> TRUE,
          adjustments |-> assign_adjustments(adj, from_yaml(src.data).value)]

\* Adjuster::load: the Result and the adjustments it leaves. The empty
\* path and a missing file return Ok before anything is assigned; a file
\* that cannot be read or parsed returns Err before the assignment.
load(adj, src) ==
    IF src.file_path = "empty" THEN [ok |-> TRUE, adjustments |-> adj]
    ELSE IF src.file_path = "missing" THEN [ok |-> TRUE, adjustments |-> adj]
    ELSE IF src.file_path = "unreadable"
    THEN [ok |-> FALSE, adjustments |-> adj]
    ELSE IF ~from_yaml(src.data).ok
    THEN [ok |-> FALSE, adjustments |-> adj]
    ELSE [ok |-> TRUE,
          adjustments |-> assign_adjustments(adj, from_yaml(src.data).value)]

\* a call of Adjuster::load
Load ==
    /\ \E src \in LoadInputs :
          /\ adjustments' = load(adjustments, src).adjustments
          /\ lastLoad' = Some([input |-> src,
                               ok |-> load(adjustments, src).ok,
                               before |-> adjustments])
    /\ answer' = None
    /\ UNCHANGED <<parserVars, lockVars, runVars, httpVars, execVars>>

\* a call of Adjuster::exists_in_mcp
ExistsInMcp ==
    /\ \E route \in QueryPaths, method \in QueryMethods :
          answer' = Some([call |-> "exists_in_mcp", route |-> route,
                          method |-> method,
                          value |-> exists_in_mcp(adjustments, route, method)])
    /\ UNCHANGED <<parserVars, lockVars, runVars, httpVars, execVars, adjustments, lastLoad>>

\* a call of Adjuster::get_description
GetDescription ==
    /\ \E route \in {Path("/users", 0), Path("/users", 1)},
          method \in QueryMethods \ {"DELETE"} :
          answer' = Some([call |-> "get_description", route |-> route,
                          method |-> method, original_desc |-> "original",
                          value |-> get_description(adjustments, route,
                                                    method, "original")])
    /\ UNCHANGED <<parserVars, lockVars, runVars, httpVars, execVars, adjustments, lastLoad>>

NextAdjuster ==
    \/ Load
    \/ ExistsInMcp
    \/ GetDescription

SpecAdjuster == Init /\ [][NextAdjuster]_vars

\* ---------------------------------------------------------------------
\* SwaggerParser (_parser.rs): the Schema Compiler
\* ---------------------------------------------------------------------
\* how many times init and parse_reader are called on one parser
MaxParses == 2
\* a path of 62 characters
LongStem == "/aaaaaaaaaaaaaaaaaaaaaaaaaaaaaaaaaaaaaaaaaaaaaaaaaaaaaaaaaaaaa"
\* the characters of the strings the parser takes apart
Chars ==
    ("GET" :> <<"G", "E", "T">>) @@
    ("POST" :> <<"P", "O", "S", "T">>) @@
    ("PUT" :> <<"P", "U", "T">>) @@
    ("DELETE" :> <<"D", "E", "L", "E", "T", "E">>) @@
    ("PATCH" :> <<"P", "A", "T", "C", "H">>) @@
    ("/users" :> <<"/", "u", "s", "e", "r", "s">>) @@
    ("/users/{id}" :> <<"/", "u", "s", "e", "r", "s", "/", "{", "i", "d", "}">>) @@
    ("/items" :> <<"/", "i", "t", "e", "m", "s">>) @@
    ("/v1.0/pets" :> <<"/", "v", "1", ".", "0", "/", "p", "e", "t", "s">>) @@
    ("id" :> <<"i", "d">>) @@
    (LongStem :> [i \in 1..62 |-> IF i = 1 THEN "/" ELSE "a"])
\* the characters of a path: its stem, then its trailing slashes
chars(path) == Chars[path.stem] \o [i \in 1..path.slashes |-> "/"]
\* str::to_lowercase, over the letters of the method names
to_lowercase(cs) ==
    LET lowercase(c) ==
            CASE c = "A" -> "a" [] c = "C" -> "c" [] c = "D" -> "d"
              [] c = "E" -> "e" [] c = "G" -> "g" [] c = "H" -> "h"
              [] c = "L" -> "l" [] c = "O" -> "o" [] c = "P" -> "p"
              [] c = "S" -> "s" [] c = "T" -> "t" [] c = "U" -> "u"
              [] OTHER -> c
    IN [i \in DOMAIN cs |-> lowercase(cs[i])]
\* str::trim_start_matches(c): every leading c goes
RECURSIVE trim_start_matches(_, _)
trim_start_matches(cs, c) ==
    IF cs # <<>> /\ Head(cs) = c THEN trim_start_matches(Tail(cs), c)
    ELSE cs
\* str::trim_end_matches(c) on characters: every trailing c goes
RECURSIVE trim_end_chars(_, _)
trim_end_chars(cs, c) ==
    IF cs # <<>> /\ cs[Len(cs)] = c
    THEN trim_end_chars(SubSeq(cs, 1, Len(cs) - 1), c)
    ELSE cs
\* str::replace: each character of the set becomes the given characters
RECURSIVE replace(_, _, _)
replace(cs, from, to) ==
    IF cs = <<>> THEN <<>>
    ELSE IF Len(cs) = 1 THEN (IF cs[1] \in from THEN to ELSE cs)
    ELSE replace(SubSeq(cs, 1, Len(cs) \div 2), from, to)
             \o replace(SubSeq(cs, Len(cs) \div 2 + 1, Len(cs)), from, to)
\* str::split('/') from character i on: the part up to the next '/',
\* then the parts after it
RECURSIVE split_from(_, _)
split_from(cs, i) ==
    IF \A k \in i..Len(cs) : cs[k] # "/"
    THEN <<SubSeq(cs, i, Len(cs))>>
    ELSE LET next == CHOOSE k \in i..Len(cs) :
                         /\ cs[k] = "/"
                         /\ \A j \in i..(k - 1) : cs[j] # "/"
         IN <<SubSeq(cs, i, next - 1)>> \o split_from(cs, next + 1)

\* SwaggerParser::normalize_tool_name: the characters of the tool name
normalize_tool_name(path, method) ==
    LET p1 == trim_start_matches(chars(path), "/")
        p2 == replace(p1, {"/"}, <<"_">>)
        p3 == replace(p2, {"{", "}"}, <<"_", "_">>)
    IN to_lowercase(to_lowercase(Chars[method]) \o <<"_">> \o p3)

\* SwaggerParser::extract_path_params: the names of the {..} segments
extract_path_params(path) ==
    LET braced(part) ==
            part # <<>> /\ part[1] = "{" /\ part[Len(part)] = "}"
        parts == SelectSeq(split_from(chars(path), 1), braced)
        name(part) ==
            CHOOSE s \in DOMAIN Chars :
                Chars[s] = trim_end_chars(trim_start_matches(part, "{"), "}")
    IN [i \in DOMAIN parts |-> name(parts[i])]

\* the OpenAPI documents (openapiv3) given to the parser: a sequence of
\* paths, each with a path item or a reference; an item has operations
\* by method; an operation has parameters, a request body, responses; a
\* description that is JSON null is "null"
Documents ==
    LET Reference == [ref |-> TRUE]
        ObjectSchema(properties, required) ==
            [ref |-> FALSE, kind |-> "object", properties |-> properties,
             required |-> required, description |-> "null"]
        ScalarSchema(kind, description) ==
            [ref |-> FALSE, kind |-> kind, description |-> description]
        ArraySchema(items) ==
            [ref |-> FALSE, kind |-> "array", items |-> items,
             description |-> "null"]
        QueryParameter(name, description, required) ==
            [ref |-> FALSE, in |-> "query",
             parameter_data |-> [name |-> name, description |-> description,
                                 required |-> required]]
        PathParameter(name) ==
            [ref |-> FALSE, in |-> "path",
             parameter_data |-> [name |-> name, description |-> None,
                                 required |-> TRUE]]
        MediaType(content_type, schema) ==
            [content_type |-> content_type, schema |-> schema]
        RequestBody(content) ==
            [ref |-> FALSE, content |-> content, required |-> TRUE]
        Response(status, content) ==
            [ref |-> FALSE, status |-> status, content |-> content]
        Operation(description, summary, parameters, request_body,
                  responses) ==
            [description |-> description, summary |-> summary,
             parameters |-> parameters, request_body |-> request_body,
             responses |-> responses]
        PathEntry(path, ops) ==
            [path |-> path, item |-> [ref |-> FALSE, ops |-> ops]]
        UserSchema ==
            ObjectSchema(
                <<[name |-> "name",
                   schema |-> ScalarSchema("string", "the name")],
                  [name |-> "tags",
                   schema |-> ArraySchema(Some(ScalarSchema("string",
                                                            "null")))],
                  [name |-> "owner", schema |-> Reference]>>,
                <<"name">>)
        JsonOk(schema) ==
            Response(200, <<MediaType("application/json", schema)>>)
        DocUsers ==
            <<PathEntry(Path("/users", 0),
                ("GET" :> Operation(Some("list users"), Some("users"),
                             <<QueryParameter("limit", Some("page size"),
                                              FALSE),
                               Reference>>,
                             None, <<JsonOk(Some(UserSchema))>>))
                @@ ("POST" :> Operation(None, Some("create user"), <<>>,
                         Some(RequestBody(<<MediaType("application/json",
                                                      Some(UserSchema))>>)),
                         <<Response(404, <<>>), JsonOk(None)>>))
                @@ ("HEAD" :> Operation(None, None, <<>>, None, <<>>))),
              PathEntry(Path("/users/{id}", 0),
                ("GET" :> Operation(None, None, <<PathParameter("id")>>,
                             None,
                             <<JsonOk(Some(ScalarSchema("string",
                                                        "null")))>>))
                @@ ("DELETE" :> Operation(Some("remove user"), None,
                                          <<PathParameter("id")>>, None,
                                          <<>>)))>>
        DocItems ==
            <<PathEntry(Path("/items", 0),
                ("GET" :> Operation(Some("list items"), None, <<>>, None,
                                    <<>>))
                @@ ("OPTIONS" :> Operation(None, None, <<>>, None, <<>>))),
              [path |-> Path("/users", 0), item |-> Reference]>>
        DocOdd ==
            <<PathEntry(Path("/v1.0/pets", 0),
                ("PUT" :> Operation(None, None, <<>>,
                             Some(RequestBody(
                                 <<MediaType("text/plain", None),
                                   MediaType("application/json",
                                       Some(ScalarSchema("other",
                                                         "null")))>>)),
                             <<>>))),
              PathEntry(Path(LongStem, 0),
                ("PATCH" :> Operation(None, None, <<>>, Some(Reference),
                                      <<>>)))>>
    IN {<<>>, DocUsers, DocItems, DocOdd}
\* what init and parse_reader read from: a source that fails, bytes that
\* are neither JSON nor YAML, or a document as JSON or as YAML
SpecSources ==
    {[readable |-> FALSE],
     [readable |-> TRUE, data |-> [syntax |-> "other"]]}
    \cup {[readable |-> TRUE, data |-> [syntax |-> s, doc |-> d]] :
             s \in {"json", "yaml"}, d \in Documents}
\* the adjustments_file argument of init
AdjustmentArgs ==
    {None, Some([file_path |-> "missing"]),
     Some([file_path |-> "file", data |-> [syntax |-> "not_yaml"]]),
     Some([file_path |-> "file",
           data |-> [syntax |-> "yaml",
                     routes |-> Some(<<RouteSelection(Path("/users", 0),
                                                      <<"GET">>)>>),
                     descriptions |-> Some(<<>>)]]),
     Some([file_path |-> "file",
           data |-> [syntax |-> "yaml", routes |-> Some(<<>>),
                     descriptions |->
                         Some(<<RouteDescription(Path("/users", 0),
                                  <<RouteFieldUpdate("GET", "new get")>>)>>)]])}

\* SwaggerParser::detect_and_parse_openapi: JSON first, then YAML
detect_and_parse_openapi(data) ==
    IF data.syntax = "json" THEN [ok |-> TRUE, value |-> data.doc]
    ELSE IF data.syntax = "yaml" THEN [ok |-> TRUE, value |-> data.doc]
    ELSE [ok |-> FALSE,
          error |-> "Failed to parse OpenAPI 3.0 spec from provided data"]

\* the methods process_operations looks at, in its order
FiveMethods == <<"GET", "POST", "PUT", "DELETE", "PATCH">>
\* doc.paths.paths.get(&route.path), the Item of the ReferenceOr, then the
\* match on route.method over the methods `among`
route_operation(d, route, among) ==
    LET at == {i \in DOMAIN d : d[i].path = route.path} IN
    IF at = {} THEN None
    ELSE LET item == d[CHOOSE i \in at : \A j \in at : i <= j].item IN
         IF item.ref THEN None
         ELSE IF route.method \in among /\ route.method \in DOMAIN item.ops
         THEN Some(item.ops[route.method])
         ELSE None

\* SwaggerParser::schema_to_json_schema: a property that is a reference
\* is left out; of two properties with one name the later is kept
RECURSIVE schema_to_json_schema(_)
schema_to_json_schema(schema) ==
    CASE schema.kind = "object" ->
           LET props == schema.properties
               items == {i \in DOMAIN props : ~props[i].schema.ref}
               last(n) == CHOOSE i \in items :
                              /\ props[i].name = n
                              /\ \A j \in items :
                                    props[j].name = n => j <= i
           IN [type |-> "object",
               properties |->
                   [n \in {props[i].name : i \in items} |->
                       schema_to_json_schema(props[last(n)].schema)]]
              @@ (IF schema.required # <<>>
                  THEN [required |-> schema.required] ELSE EmptyMap)
      [] schema.kind \in {"string", "number", "integer", "boolean"} ->
           [type |-> schema.kind, description |-> schema.description]
      [] schema.kind = "array" ->
           [type |-> "array",
            items |-> IF is_some(schema.items)
                         /\ ~unwrap(schema.items).ref
                      THEN schema_to_json_schema(unwrap(schema.items))
                      ELSE EmptyMap,
            description |-> schema.description]
      [] OTHER ->
           [type |-> "object", description |-> schema.description]

\* SwaggerParser::parameter_data_to_json_schema
parameter_data_to_json_schema(param_data) ==
    [type |-> "string",
     description |-> IF is_some(param_data.description)
                     THEN unwrap(param_data.description) ELSE "",
     required |-> param_data.required]
\* SwaggerParser::get_parameter_schema: the first parameter of the
\* operation with the kind and the name
get_parameter_schema(d, route, param_name, param_type) ==
    LET operation ==
            route_operation(d, route, {"GET", "POST", "PUT", "DELETE",
                                       "PATCH"})
    IN IF ~is_some(operation) THEN None
       ELSE LET parameters == unwrap(operation).parameters
                hits == {i \in DOMAIN parameters :
                            /\ ~parameters[i].ref
                            /\ parameters[i].in = param_type
                            /\ parameters[i].parameter_data.name = param_name}
            IN IF hits = {} THEN None
               ELSE Some(parameter_data_to_json_schema(
                        parameters[CHOOSE i \in hits : \A j \in hits : i <= j]
                            .parameter_data))

\* SwaggerParser::get_first_response_schema: the first media type whose
\* schema is an Item
get_first_response_schema(resp) ==
    LET hits == {i \in DOMAIN resp.content :
                    /\ is_some(resp.content[i].schema)
                    /\ ~unwrap(resp.content[i].schema).ref}
    IN IF hits = {} THEN None
       ELSE resp.content[CHOOSE i \in hits : \A j \in hits : i <= j].schema
\* SwaggerParser::get_first_body_schema, its schema component
get_first_body_schema(operation) ==
    IF ~is_some(operation.request_body) THEN None
    ELSE IF unwrap(operation.request_body).ref THEN None
    ELSE LET content == unwrap(operation.request_body).content
             hits == {i \in DOMAIN content :
                         /\ is_some(content[i].schema)
                         /\ ~unwrap(content[i].schema).ref}
         IN IF hits = {} THEN None
            ELSE content[CHOOSE i \in hits : \A j \in hits : i <= j].schema
\* SwaggerParser::get_body_schema
get_body_schema(d, route) ==
    LET operation == route_operation(d, route, {"POST", "PUT", "PATCH"})
    IN IF is_some(operation) /\ is_some(get_first_body_schema(unwrap(operation)))
       THEN Some(schema_to_json_schema(
                     unwrap(get_first_body_schema(unwrap(operation)))))
       ELSE None

\* SwaggerParser::create_input_schema: "properties" and "required" are
\* inserted only when they are not empty
create_input_schema(d, route) ==
    LET path_params == extract_path_params(route.path)
        query_params == route.method_config.query_params
        from_path ==
            [k \in {path_params[i] : i \in DOMAIN path_params} |->
                [type |-> "string",
                 description |-> "Path parameter: " \o k]]
        from_query ==
            [k \in {query_params[i] : i \in DOMAIN query_params} |->
                IF is_some(get_parameter_schema(d, route, k, "query"))
                THEN unwrap(get_parameter_schema(d, route, k, "query"))
                ELSE [type |-> "string",
                      description |-> "Query parameter: " \o k]]
        from_body ==
            IF route.method \in {"POST", "PUT", "PATCH"}
               /\ is_some(get_body_schema(d, route))
            THEN ("body" :> unwrap(get_body_schema(d, route)))
            ELSE EmptyMap
        properties == from_body @@ from_query @@ from_path
    IN [type |-> "object"]
       @@ (IF DOMAIN properties # {}
           THEN [properties |-> properties] ELSE EmptyMap)
       @@ (IF path_params # <<>>
           THEN [required |-> path_params] ELSE EmptyMap)

\* SwaggerParser::create_output_schema: the first 2xx response that has a
\* schema, with its status
create_output_schema(d, route) ==
    LET operation ==
            route_operation(d, route, {"GET", "POST", "PUT", "DELETE",
                                       "PATCH"})
    IN IF ~is_some(operation) THEN None
       ELSE LET responses == unwrap(operation).responses
                hits == {i \in DOMAIN responses :
                            /\ responses[i].status \in 200..299
                            /\ ~responses[i].ref
                            /\ is_some(get_first_response_schema(
                                           responses[i]))}
                first == CHOOSE i \in hits : \A j \in hits : i <= j
            IN IF hits = {} THEN None
               ELSE Some(("http_status" :> responses[first].status)
                         @@ schema_to_json_schema(
                                unwrap(get_first_response_schema(
                                           responses[first]))))

\* SwaggerParser::generate_tool
generate_tool(d, route) ==
    LET path == IF route.path.slashes = 0 THEN route.path.stem
                ELSE IF route.path.slashes = 1 THEN route.path.stem \o "/"
                ELSE route.path.stem \o "//"
    IN [name |-> normalize_tool_name(route.path, route.method),
        description |-> Some(route.method \o " " \o path \o " - "
                             \o route.description),
        input_schema |-> create_input_schema(d, route),
        output_schema |-> create_output_schema(d, route)]

\* SwaggerParser::create_route_config: the Accept header is the first
\* content type of the first response that has one
create_route_config(adj, path, method, operation) ==
    LET description ==
            IF is_some(operation.description)
            THEN unwrap(operation.description)
            ELSE IF is_some(operation.summary)
            THEN unwrap(operation.summary)
            ELSE ""
        responses == operation.responses
        with_content == {i \in DOMAIN responses :
                            ~responses[i].ref /\ responses[i].content # <<>>}
        accept ==
            IF with_content = {} THEN EmptyMap
            ELSE ("Accept" :>
                    responses[CHOOSE i \in with_content :
                                  \A j \in with_content : i <= j]
                        .content[1].content_type)
        is_query(p) == ~p.ref /\ p.in = "query"
        query == SelectSeq(operation.parameters, is_query)
        path_params == extract_path_params(path)
    IN [path |-> path,
        method |-> method,
        description |-> get_description(adj, path, method, description),
        headers |-> accept @@ ("Content-Type" :> "application/json"),
        parameters |-> [k \in {path_params[i] : i \in DOMAIN path_params}
                            |-> ""],
        method_config |-> [query_params |->
                               [i \in DOMAIN query |->
                                   query[i].parameter_data.name],
                           form_fields |-> <<>>,
                           file_upload |-> None]]

\* SwaggerParser::process_operations: the loop over the five methods of
\* one path item, from method j on; a route the Adjuster accepts is
\* pushed onto route_tools
RECURSIVE process_methods(_, _, _, _, _, _)
process_methods(adj, d, path, item, rts, j) ==
    IF j > Len(FiveMethods) THEN rts
    ELSE IF FiveMethods[j] \in DOMAIN item.ops
    THEN LET route_config ==
                 create_route_config(adj, path, FiveMethods[j],
                                     item.ops[FiveMethods[j]])
         IN IF exists_in_mcp(adj, route_config.path, route_config.method)
            THEN process_methods(adj, d, path, item,
                     Append(rts, [route_config |-> route_config,
                                  tool |-> generate_tool(d, route_config)]),
                     j + 1)
            ELSE process_methods(adj, d, path, item, rts, j + 1)
    ELSE process_methods(adj, d, path, item, rts, j + 1)
\* SwaggerParser::process_operations: the loop over the paths
RECURSIVE process_paths(_, _, _, _)
process_paths(adj, d, rts, i) ==
    IF i > Len(d) THEN rts
    ELSE IF d[i].item.ref THEN process_paths(adj, d, rts, i + 1)
    ELSE process_paths(adj, d,
                       process_methods(adj, d, d[i].path, d[i].item, rts, 1),
                       i + 1)
\* SwaggerParser::process_operations
process_operations(parser) ==
    IF ~is_some(parser.doc)
    THEN [ok |-> FALSE, parser |-> parser]
    ELSE [ok |-> TRUE,
          parser |-> [parser EXCEPT
              !.route_tools = process_paths(parser.adjuster,
                                            unwrap(parser.doc),
                                            parser.route_tools, 1)]]

\* the SwaggerParser as it stands
SwaggerParser ==
    [doc |-> doc, route_tools |-> route_tools, adjuster |-> adjustments]

\* Parser::parse_reader: read, detect_and_parse_openapi,
\* process_operations
parse_reader(parser, reader) ==
    IF ~reader.readable THEN [ok |-> FALSE, parser |-> parser]
    ELSE IF ~detect_and_parse_openapi(reader.data).ok
    THEN [ok |-> FALSE, parser |-> parser]
    ELSE process_operations(
             [parser EXCEPT
                 !.doc = Some(detect_and_parse_openapi(reader.data).value)])

\* Parser::init: read the file, load the adjustments when a file is
\* named, then as parse_reader
init(parser, openapi_spec, adjustments_file) ==
    IF ~openapi_spec.readable THEN [ok |-> FALSE, parser |-> parser]
    ELSE IF is_some(adjustments_file)
            /\ ~load(parser.adjuster, unwrap(adjustments_file)).ok
    THEN [ok |-> FALSE, parser |-> parser]
    ELSE parse_reader(
             [parser EXCEPT
                 !.adjuster =
                     IF is_some(adjustments_file)
                     THEN load(parser.adjuster,
                               unwrap(adjustments_file)).adjustments
                     ELSE parser.adjuster],
             openapi_spec)

\* a call of Parser::init
ParserInit ==
    /\ parses < MaxParses
    /\ \E openapi_spec \in SpecSources, adjustments_file \in AdjustmentArgs :
          LET r == init(SwaggerParser, openapi_spec, adjustments_file) IN
          /\ doc' = r.parser.doc
          /\ route_tools' = r.parser.route_tools
          /\ adjustments' = r.parser.adjuster
          /\ lastParse' = Some([call |-> "init", ok |-> r.ok])
          /\ lastLoad' =
                 IF openapi_spec.readable /\ is_some(adjustments_file)
                 THEN Some([input |-> unwrap(adjustments_file),
                            ok |-> load(adjustments,
                                        unwrap(adjustments_file)).ok,
                            before |-> adjustments])
                 ELSE lastLoad
    /\ parses' = parses + 1
    /\ UNCHANGED <<runVars, httpVars, execVars, lockVars, answer>>

\* a call of Parser::parse_reader
ParseReader ==
    /\ parses < MaxParses
    /\ \E reader \in SpecSources :
          LET r == parse_reader(SwaggerParser, reader) IN
          /\ doc' = r.parser.doc
          /\ route_tools' = r.parser.route_tools
          /\ lastParse' = Some([call |-> "parse_reader", ok |-> r.ok])
    /\ parses' = parses + 1
    /\ UNCHANGED <<runVars, httpVars, execVars, lockVars, adjVars>>

NextParser ==
    \/ ParserInit
    \/ ParseReader

SpecParser == Init /\ [][NextParser]_vars

\* ---------------------------------------------------------------------
\* Server::list_tools, Server::call_tool and their _simple twins
\* (_server.rs) around the Mutex of the ToolHandler
\* ---------------------------------------------------------------------
\* a request (list_tools, or call_tool with its params) arrives and its
\* task reaches self.tool_handler.lock().await; `during` is history: the
\* tasks suspended in their executor at that moment
StartCall(t) ==
    /\ pc = "serve"
    /\ calls[t].pc = "idle"
    /\ \E c \in {[op |-> "list_tools"]}
                 \cup {[op |-> "call_tool", params |-> p] :
                          p \in {q \in CallParams : q.shape = "call"}} :
          calls' = [calls EXCEPT ![t] =
                       [pc |-> "waiting", call |-> c,
                        during |-> {u \in Tasks :
                                       calls[u].pc = "awaiting"}]]
    /\ UNCHANGED <<runVars, httpVars, execVars, adjVars, parserVars, lock>>

\* lock().await returns the guard
Acquire(t) ==
    /\ calls[t].pc = "waiting"
    /\ lock = None
    /\ lock' = Some(t)
    /\ calls' = [calls EXCEPT ![t].pc = "locked"]
    /\ UNCHANGED <<runVars, httpVars, execVars, adjVars, parserVars>>

\* list_tools under the guard; the guard goes when the function returns
ListTools(t) ==
    /\ calls[t].pc = "locked"
    /\ calls[t].call.op = "list_tools"
    /\ calls' = [calls EXCEPT ![t] = [pc |-> "done", call |-> @.call,
                                      during |-> @.during,
                                      result |-> list_tools_simple(tools)]]
    /\ lock' = None
    /\ UNCHANGED <<runVars, httpVars, execVars, adjVars, parserVars>>

\* mutant: the guard is kept while the executor is awaited
LookupExecutor_keeps_guard(t) ==
    /\ calls[t].pc = "locked"
    /\ calls[t].call.op = "call_tool"
    /\ IF is_some(get_executor(tools, calls[t].call.params.name))
       THEN /\ calls' = [calls EXCEPT ![t].pc = "awaiting"]
            /\ lock' = lock
       ELSE /\ calls' = [calls EXCEPT ![t] =
                           [pc |-> "done", call |-> @.call,
                            during |-> @.during,
                            result |-> call_tool_simple(tools, @.call.params,
                                                        [ok |-> FALSE])]]
            /\ lock' = None
    /\ UNCHANGED <<runVars, httpVars, execVars, adjVars, parserVars>>

\* call_tool under the guard: get_executor; with an executor, clone it
\* and drop(tool_handler) before the future is awaited; without one,
\* return the -32601 error, which drops the guard too
LookupExecutor(t) ==
    /\ calls[t].pc = "locked"
    /\ calls[t].call.op = "call_tool"
    /\ IF is_some(get_executor(tools, calls[t].call.params.name))
       THEN calls' = [calls EXCEPT ![t].pc = "awaiting"]
       ELSE calls' = [calls EXCEPT ![t] =
                         [pc |-> "done", call |-> @.call,
                          during |-> @.during,
                          result |-> call_tool_simple(tools, @.call.params,
                                                      [ok |-> FALSE])]]
    /\ lock' = None
    /\ UNCHANGED <<runVars, httpVars, execVars, adjVars, parserVars>>

\* future.await returns: the executor's HTTP request is over and
\* call_tool returns; a guard still alive would go here
ExecutorReturns(t) ==
    /\ calls[t].pc = "awaiting"
    /\ \E outcome \in ExecOutcomes :
          calls' = [calls EXCEPT ![t] =
                       [pc |-> "done", call |-> @.call, during |-> @.during,
                        result |-> call_tool_simple(tools, @.call.params,
                                                    outcome)]]
    /\ lock' = IF lock = Some(t) THEN None ELSE lock
    /\ UNCHANGED <<runVars, httpVars, execVars, adjVars, parserVars>>

NextLock ==
    \/ Register
    \/ ServeHttp
    \/ \E t \in Tasks : StartCall(t)
    \/ \E t \in Tasks : Acquire(t)
    \/ \E t \in Tasks : ListTools(t)
    \/ \E t \in Tasks : LookupExecutor(t)
    \/ \E t \in Tasks : ExecutorReturns(t)

\* tokio runs every task that can run, and its Mutex hands the lock to
\* waiters in turn; nothing makes a backend answer, so ExecutorReturns
\* is not fair
SpecLock ==
    /\ Init
    /\ [][NextLock]_vars
    /\ \A t \in Tasks :
          /\ SF_vars(Acquire(t))
          /\ WF_vars(ListTools(t))
          /\ WF_vars(LookupExecutor(t))

\* ---------------------------------------------------------------------
\* Vocabulary of the properties
\* ---------------------------------------------------------------------
\* message k of the session failed to parse as a JSON-RPC request
Malformed(k) == consumed[k].syntax # "envelope"
\* message k parsed and carries an id (a JSON null id counts as none)
CarriesId(k) ==
    consumed[k].syntax = "envelope" /\ consumed[k].id \notin {"absent", "null"}
\* message k parsed and carries no id: a notification
Notification(k) ==
    consumed[k].syntax = "envelope" /\ consumed[k].id \in {"absent", "null"}
MethodOf(k) ==
    IF consumed[k].syntax = "envelope" THEN consumed[k].method ELSE "none"
\* run has finished the loop iteration of message k
Handled(k) == k < Len(consumed) \/ (k = Len(consumed) /\ is_none(input))
\* the outputs written in answer to message k
AnswersTo(k) == {j \in 1..Len(outputs) : outSrc[j] = k}
HasResult(o) == "result" \in DOMAIN o
HasError(o) == "error" \in DOMAIN o
\* message k is a tools/call with well-formed params
WellFormedCall(k) ==
    /\ MethodOf(k) = "tools/call"
    /\ consumed[k].params.shape = "call"
\* the executor invocations made for message k
InvocationsFor(k) == {i \in 1..Len(invoked) : invoked[i].src = k}
\* the names registered so far
RegisteredNames == {n \in ToolNames : is_some(lastReg[n])}
\* the body bytes read as text: ASCII bytes as they are, a byte that is
\* not valid UTF-8 as U+FFFD
BodyAsText(body) ==
    [i \in 1..Len(body) |-> IF body[i] = 255 THEN 65533 ELSE body[i]]

\* ---------------------------------------------------------------------
\* C1. Every message that fails to parse and that run has finished
\* handling has exactly one output written for it, with id null, error
\* code -32700 and no result; no malformed message ever has more than one.
\* (run returns the transport's error, with nothing written, only when
\* the write itself fails.)
C1_ParseErrorAnswered ==
    \A k \in 1..Len(consumed) :
        Malformed(k) =>
            /\ Cardinality(AnswersTo(k)) <= 1
            /\ Handled(k) => Cardinality(AnswersTo(k)) = 1
            /\ \A j \in AnswersTo(k) :
                  /\ outputs[j].id = "null"
                  /\ HasError(outputs[j])
                  /\ outputs[j].error.code = -32700
                  /\ ~HasResult(outputs[j])

C1_Witness ==
    \E k \in 1..Len(consumed) :
        /\ Malformed(k) /\ Handled(k)
        /\ \E j \in AnswersTo(k) : outputs[j].error.code = -32700

\* C2. A malformed message does not end the session: run stops only by
\* returning Ok when the transport reports Closed, at which point nothing
\* is left in the queue and every message read, also those after a
\* malformed one, was parsed and dispatched, or by returning a transport
\* error; short of that it can always take the next step of its loop.
C2_MalformedDoesNotEndSession ==
    /\ pc = "done" => inputs = <<>>
    /\ pc \in {"read", "done"} => \A k \in 1..Len(consumed) : Handled(k)
    /\ pc \in {"read", "write"} =>
           ENABLED (ReadMessage \/ ReadClosed \/ WriteMessage)

C2_Witness ==
    /\ pc = "done"
    /\ Len(consumed) = 2
    /\ Malformed(1)
    /\ ~Malformed(2)
    /\ Len(outputs) = 2

\* C3. No output is ever written for a parsed request that carries no id,
\* whatever its method.
C3_NotificationUnanswered ==
    \A k \in 1..Len(consumed) : Notification(k) => AnswersTo(k) = {}

C3_Witness ==
    /\ pc = "done"
    /\ Len(consumed) = 2
    /\ Notification(1) /\ MethodOf(1) = "tools/call"
    /\ Notification(2) /\ MethodOf(2) = "ping"
    /\ outputs = <<>>

\* C4 (as claimed). No message with method notifications/initialized ever
\* causes an output to be written.
C4_InitializedNeverAnswered ==
    \A k \in 1..Len(consumed) :
        MethodOf(k) = "notifications/initialized" => AnswersTo(k) = {}

\* C5. Strict framing: the outputs answer, in input order and at most once
\* each, exactly the messages that are malformed or carry an id; whenever
\* run reads a message, every earlier message that needs an answer has
\* already got it.
C5_StrictFraming ==
    /\ Len(outSrc) = Len(outputs)
    /\ \A j \in 1..Len(outSrc) :
          /\ outSrc[j] \in 1..Len(consumed)
          /\ Malformed(outSrc[j]) \/ CarriesId(outSrc[j])
    /\ \A i, j \in 1..Len(outSrc) : i < j => outSrc[i] < outSrc[j]
    /\ \A k \in 1..Len(consumed) :
          (Handled(k) /\ (Malformed(k) \/ CarriesId(k))) =>
              Cardinality(AnswersTo(k)) = 1

C5_Witness ==
    /\ pc = "done"
    /\ Len(consumed) = 2
    /\ CarriesId(1) /\ MethodOf(1) = "tools/list"
    /\ Malformed(2)
    /\ outSrc = <<1, 2>>
    /\ HasResult(outputs[1])
    /\ HasError(outputs[2])

\* C6. A tools/call with well-formed params naming a tool that is not in
\* the registry invokes no executor, and what is written for it is an
\* error with code -32601 and no result.
C6_UnknownToolRejected ==
    \A k \in 1..Len(consumed) :
        (WellFormedCall(k) /\ consumed[k].params.name \notin RegisteredNames) =>
            /\ InvocationsFor(k) = {}
            /\ (Handled(k) /\ CarriesId(k)) => AnswersTo(k) # {}
            /\ \A j \in AnswersTo(k) :
                  /\ HasError(outputs[j])
                  /\ outputs[j].error.code = -32601
                  /\ ~HasResult(outputs[j])

C6_Witness ==
    /\ tools # <<>>
    /\ \E k \in 1..Len(consumed) :
          /\ WellFormedCall(k)
          /\ consumed[k].params.name \notin RegisteredNames
          /\ \E j \in AnswersTo(k) : outputs[j].error.code = -32601

\* C7. The tools array of every tools/list result has as many elements as
\* the registry's count(), in every state of the registry.
C7_ListLengthIsCount ==
    /\ Len(list_metadata(tools)) = count(tools)
    /\ \A j \in 1..Len(outputs) :
          (HasResult(outputs[j]) /\ outputs[j].result.kind = "ListToolsResult") =>
              Len(outputs[j].result.tools) = count(tools)

C7_Witness ==
    /\ count(tools) = 2
    /\ \E j \in 1..Len(outputs) :
          /\ HasResult(outputs[j])
          /\ outputs[j].result.kind = "ListToolsResult"
          /\ Len(outputs[j].result.tools) = 2

\* C8. After any sequence of register calls: get(name) is the tool of the
\* latest registration under that name (None when there was none), no two
\* entries of the registry share a name, and count() is the number of
\* distinct names registered.
C8_LastRegistrationWins ==
    /\ \A n \in ToolNames : get(tools, n) = lastReg[n]
    /\ \A i, j \in 1..Len(tools) : tools[i].name = tools[j].name => i = j
    /\ \A i, j \in 1..Len(tools) :
          list_metadata(tools)[i].name = list_metadata(tools)[j].name => i = j
    /\ count(tools) = Cardinality(RegisteredNames)

C8_Witness ==
    /\ replaced = Some(RegisteredTool("get_a", "r1"))
    /\ count(tools) = 2
    /\ get(tools, "get_a") = Some(RegisteredTool("get_a", "r2"))

\* C9. When the executor of a tools/call returned an HTTP response, the
\* answer is a JSON-RPC result and never an error; its isError is true
\* exactly when the status code is at least 400, and its content is one
\* text item holding the response body.
C9_HttpResponseBecomesResult ==
    \A i \in 1..Len(invoked) :
        invoked[i].outcome.ok =>
            /\ (Handled(invoked[i].src) /\ CarriesId(invoked[i].src)) =>
                   AnswersTo(invoked[i].src) # {}
            /\ \A j \in AnswersTo(invoked[i].src) :
                  /\ HasResult(outputs[j])
                  /\ ~HasError(outputs[j])
                  /\ outputs[j].result.isError =
                         (invoked[i].outcome.status_code >= 400)
                  /\ outputs[j].result.content =
                         <<[type |-> "text",
                            text |-> BodyAsText(invoked[i].outcome.body)]>>

C9_Witness ==
    \E i, k \in 1..Len(invoked) :
        /\ invoked[i].outcome.ok /\ invoked[i].outcome.status_code = 400
        /\ invoked[i].outcome.body = <<65, 255>>
        /\ invoked[k].outcome.ok /\ invoked[k].outcome.status_code = 200
        /\ \E j \in AnswersTo(invoked[i].src) : outputs[j].result.isError
        /\ \E j \in AnswersTo(invoked[k].src) : ~outputs[j].result.isError

\* C10 (as claimed). Every backend response whose status is not 2xx is
\* delivered as a result carrying isError = true.
C10_Non2xxIsError ==
    \A i \in 1..Len(invoked) :
        (invoked[i].outcome.ok
         /\ invoked[i].outcome.status_code \notin 200..299) =>
            \A j \in AnswersTo(invoked[i].src) :
                HasResult(outputs[j]) /\ outputs[j].result.isError

\* C10 (amended). Every backend response with status 400 or above is
\* delivered as a result, not an error, carrying isError = true; a
\* response with a status below 400, 2xx or not, is delivered as a result
\* carrying isError = false.
C10_Status400IsError ==
    \A i \in 1..Len(invoked) :
        invoked[i].outcome.ok =>
            \A j \in AnswersTo(invoked[i].src) :
                /\ HasResult(outputs[j])
                /\ ~HasError(outputs[j])
                /\ invoked[i].outcome.status_code >= 400 =>
                       outputs[j].result.isError
                /\ invoked[i].outcome.status_code < 400 =>
                       ~outputs[j].result.isError

C10_Witness ==
    \E i, k \in 1..Len(invoked) :
        /\ invoked[i].outcome.ok /\ invoked[i].outcome.status_code = 400
        /\ invoked[k].outcome.ok /\ invoked[k].outcome.status_code = 304
        /\ \E j \in AnswersTo(invoked[i].src) :
              HasResult(outputs[j]) /\ outputs[j].result.isError
        /\ \E j \in AnswersTo(invoked[k].src) :
              HasResult(outputs[j]) /\ ~outputs[j].result.isError

\* ---------------------------------------------------------------------
\* C11. When the executor of a tools/call fails, only that call is
\* affected: the call is answered, if it carries an id, with an error of
\* code -32000 and no result, and until it is written that response is the
\* one pending; the tool called is still registered with the same
\* executor; and every later message run has finished handling was
\* answered as usual, a later tools/list still reporting the whole
\* registry.
C11_ExecutorFailureIsLocal ==
    \A i \in 1..Len(invoked) :
        ~invoked[i].outcome.ok =>
            LET k == invoked[i].src IN
            /\ \A j \in AnswersTo(k) :
                  /\ HasError(outputs[j])
                  /\ outputs[j].error.code = -32000
                  /\ ~HasResult(outputs[j])
            /\ (CarriesId(k) /\ AnswersTo(k) = {}) =>
                  /\ k = Len(consumed)
                  /\ is_some(response)
                  /\ is_some(unwrap(response).error)
                  /\ unwrap(unwrap(response).error).code = -32000
            /\ get(tools, invoked[i].name) =
                  Some(RegisteredTool(invoked[i].name, invoked[i].executor))
            /\ \A m \in (k + 1)..Len(consumed) :
                  /\ (Handled(m) /\ (Malformed(m) \/ CarriesId(m))) =>
                        Cardinality(AnswersTo(m)) = 1
                  /\ \A j \in AnswersTo(m) :
                        (CarriesId(m) /\ MethodOf(m) = "tools/list") =>
                            /\ HasResult(outputs[j])
                            /\ outputs[j].result.tools = list_metadata(tools)

C11_Witness ==
    /\ pc = "done"
    /\ Len(consumed) = 2
    /\ Len(invoked) = 1
    /\ ~invoked[1].outcome.ok
    /\ invoked[1].src = 1
    /\ outSrc = <<1, 2>>
    /\ outputs[1].error.code = -32000
    /\ MethodOf(2) = "tools/list"
    /\ Len(outputs[2].result.tools) = 2

\* ---------------------------------------------------------------------
\* Vocabulary of the comparison between run and POST /mcp
\* ---------------------------------------------------------------------
\* what one iteration of run writes for `raw`: Some(envelope) or None
RunnerAnswer(reg, raw, outcome) ==
    LET parsed == parse_request(raw) IN
    IF ~parsed.ok
    THEN Some(serialize_response(parse_error_response(parsed.error)))
    ELSE IF should_respond(parsed.value)
    THEN Some(serialize_response(
                  process_request(reg, parsed.value, outcome).response))
    ELSE None
\* the kind of an answer: none at all, a result, an error, or an envelope
\* with neither
OutcomeKind(a) ==
    IF is_none(a) THEN "no answer"
    ELSE IF HasResult(unwrap(a)) THEN "result"
    ELSE IF HasError(unwrap(a)) THEN "error"
    ELSE "neither"
\* the error code of an answer, 0 when it is not an error
ErrorCode(a) ==
    IF is_some(a) /\ HasError(unwrap(a)) THEN unwrap(a).error.code ELSE 0
\* the request reaches an executor
ReachesExecutor(reg, raw) ==
    /\ raw.syntax = "envelope"
    /\ raw.method = "tools/call"
    /\ raw.params.shape = "call"
    /\ is_some(get(reg, raw.params.name))

\* C12 (as claimed). For every request with a method, run and POST /mcp
\* produce, against the same registry, the same kind of outcome and the
\* same error code.
C12_PathsIdentical ==
    (is_some(exchange) /\ unwrap(exchange).raw.syntax = "envelope") =>
        LET x == unwrap(exchange)
            r == RunnerAnswer(tools, x.raw, x.outcome)
        IN /\ OutcomeKind(r) = OutcomeKind(x.reply.body)
           /\ ErrorCode(r) = ErrorCode(x.reply.body)

\* C12 (amended). run and POST /mcp produce the same kind of outcome and
\* the same error code for every request that carries an id, has a method
\* other than notifications/initialized and does not end in a failure of
\* the executor. They differ on the rest: a failed executor is -32000 from
\* run and -32600 from POST /mcp; notifications/initialized gets a result
\* from POST /mcp and none from run; a request without id is answered by
\* POST /mcp alone.
C12_PathsAgreeExceptKnownCases ==
    (is_some(exchange) /\ unwrap(exchange).raw.syntax = "envelope") =>
        LET x == unwrap(exchange)
            r == RunnerAnswer(tools, x.raw, x.outcome)
            h == x.reply.body
            with_id == x.raw.id \notin {"absent", "null"}
            failed == ReachesExecutor(tools, x.raw) /\ ~x.outcome.ok
            initialized == x.raw.method = "notifications/initialized"
        IN /\ (with_id /\ ~initialized /\ ~failed) =>
                 /\ OutcomeKind(r) = OutcomeKind(h)
                 /\ ErrorCode(r) = ErrorCode(h)
           /\ (with_id /\ failed) =>
                 /\ OutcomeKind(r) = "error" /\ ErrorCode(r) = -32000
                 /\ OutcomeKind(h) = "error" /\ ErrorCode(h) = -32600
           /\ initialized =>
                 /\ OutcomeKind(r) \in {"no answer", "neither"}
                 /\ OutcomeKind(h) = "result"
           /\ ~with_id =>
                 /\ OutcomeKind(r) = "no answer"
                 /\ OutcomeKind(h) \in {"result", "error"}

C12_Witness ==
    /\ count(tools) = 1
    /\ is_some(exchange)
    /\ unwrap(exchange).raw.syntax = "envelope"
    /\ unwrap(exchange).raw.id = "1"
    /\ unwrap(exchange).raw.method = "tools/call"
    /\ unwrap(exchange).raw.params.shape = "call"
    /\ ~ReachesExecutor(tools, unwrap(exchange).raw)
    /\ ErrorCode(unwrap(exchange).reply.body) = -32601
    /\ ErrorCode(RunnerAnswer(tools, unwrap(exchange).raw,
                              unwrap(exchange).outcome)) = -32601

\* C13 (as claimed). Every POST /mcp is answered with status 200 and an
\* envelope carrying a result or an error.
C13_HttpAlwaysOkEnvelope ==
    is_some(exchange) =>
        /\ unwrap(exchange).reply.status = 200
        /\ is_some(unwrap(exchange).reply.body)
        /\ OutcomeKind(unwrap(exchange).reply.body) \in {"result", "error"}

\* ---------------------------------------------------------------------
\* Vocabulary of the executor's properties
\* ---------------------------------------------------------------------
\* the latest invocation sent a request
Dispatched == is_some(sent) /\ is_some(unwrap(sent).request)
\* the request it sent
SentRequest == unwrap(unwrap(sent).request)
\* the argument object of the latest invocation
SentArgs ==
    IF unwrap(sent).params_json.syntax = "json"
    THEN as_object_or_default(unwrap(sent).params_json.value)
    ELSE EmptyMap
SeqToSet(q) == {q[i] : i \in 1..Len(q)}
\* the keys sent as query parameters
QueryKeys == {SentRequest.query[i][1] : i \in 1..Len(SentRequest.query)}
\* the keys sent in the JSON body
BodyKeys ==
    IF is_some(SentRequest.body) THEN DOMAIN unwrap(SentRequest.body) ELSE {}
\* what the built executor captured
Closure == unwrap(executor).closure
\* the argument keys left once path, declared-header and declared-query
\* keys are taken out
RemainingKeys ==
    DOMAIN SentArgs \ (SeqToSet(unwrap(sent).used_keys)
                       \cup SeqToSet(Closure.known_header_params)
                       \cup SeqToSet(Closure.known_query_params))

\* C14. In every request an executor sends, the argument keys that remain
\* after path, declared-header and declared-query keys are removed are all
\* query parameters, with their values, when the method is GET, and
\* otherwise are together the JSON body and not in the query; a GET request
\* has no body, and there is no body when no key remains.
C14_ArgumentPlacement ==
    Dispatched =>
        /\ SentRequest.method = "GET" =>
              /\ SentRequest.body = None
              /\ \A k \in RemainingKeys :
                    \E i \in 1..Len(SentRequest.query) :
                        SentRequest.query[i] = <<k, value_text(SentArgs[k])>>
        /\ (SentRequest.method # "GET" /\ RemainingKeys # {}) =>
              /\ SentRequest.body =
                     Some([k \in RemainingKeys |-> SentArgs[k]])
              /\ RemainingKeys \cap QueryKeys = {}
        /\ RemainingKeys = {} => SentRequest.body = None

C14_Witness ==
    /\ Dispatched
    /\ Closure.path = <<"items", "{id}">>
    /\ Closure.known_query_params = <<"sort">>
    /\ SentArgs = ("id" :> Str("5")) @@ ("sort" :> Str("asc"))
                      @@ ("extra" :> Str("x"))
    /\ SentRequest.method = "GET"
    /\ SentRequest.url = <<"http://api", "items", "5">>
    /\ SentRequest.query = <<<<"sort", "asc">>, <<"extra", "x">>>>
    /\ SentRequest.body = None

\* C15. In every request an executor sends, each key of the argument
\* object is in exactly one of: the keys substituted into the URL, the
\* keys sent as headers, the query parameters, the JSON body; a key
\* substituted into the URL has no placeholder left in it, and no key is
\* sent twice in the query.
C15_EachKeyPlacedOnce ==
    Dispatched =>
        /\ \A k \in DOMAIN SentArgs :
              Cardinality(
                  {place \in {"path", "header", "query", "body"} :
                      \/ place = "path" /\ k \in SeqToSet(unwrap(sent).used_keys)
                      \/ place = "header" /\ k \in unwrap(sent).header_keys
                      \/ place = "query" /\ k \in QueryKeys
                      \/ place = "body" /\ k \in BodyKeys}) = 1
        /\ \A k \in SeqToSet(unwrap(sent).used_keys) :
              \A j \in 1..Len(SentRequest.url) :
                  SentRequest.url[j] # placeholder(k)
        /\ \A k \in unwrap(sent).header_keys :
              <<k, value_text(SentArgs[k])>> \in SentRequest.headers
        /\ \A i, j \in 1..Len(SentRequest.query) :
              SentRequest.query[i][1] = SentRequest.query[j][1] => i = j

C15_Witness ==
    /\ Dispatched
    /\ SentRequest.method = "POST"
    /\ SentArgs = ("id" :> Str("5")) @@ ("sort" :> Str("asc"))
                      @@ ("extra" :> Str("x"))
    /\ unwrap(sent).used_keys = <<"id">>
    /\ SentRequest.url = <<"http://api", "items", "5">>
    /\ SentRequest.query = <<<<"sort", "asc">>>>
    /\ SentRequest.body = Some(("extra" :> Str("x")))

\* C16 (as claimed). An invocation whose argument string is not JSON, or is
\* JSON but not an object, returns an error and sends no request.
C16_NonObjectRejected ==
    (is_some(sent)
     /\ (unwrap(sent).params_json.syntax = "invalid"
         \/ unwrap(sent).params_json.value.kind # "object")) =>
        /\ unwrap(sent).request = None
        /\ ~unwrap(sent).result.ok

\* C17 (as claimed). No executor is ever built for a route whose method is
\* not GET, POST, PUT, DELETE or PATCH.
C17_UnsupportedMethodNotBuilt ==
    is_some(executor) =>
        unwrap(executor).config.method \in
            {"GET", "POST", "PUT", "DELETE", "PATCH"}

\* C17 (amended). An executor built for a route whose method is not GET,
\* POST, PUT, DELETE or PATCH sends no request: every invocation of it
\* returns an error, the unsupported-method error when the argument string
\* is JSON.
C17_UnsupportedMethodFailsAtCall ==
    (is_some(sent)
     /\ unwrap(executor).config.method \notin
            {"GET", "POST", "PUT", "DELETE", "PATCH"}) =>
        /\ unwrap(sent).request = None
        /\ ~unwrap(sent).result.ok
        /\ unwrap(sent).params_json.syntax = "json" =>
              unwrap(sent).result.error = "Unsupported HTTP method"

C17_Witness ==
    /\ is_some(executor)
    /\ unwrap(executor).config.method = "HEAD"
    /\ is_some(sent)
    /\ unwrap(sent).params_json.syntax = "json"
    /\ unwrap(sent).params_json.value.kind = "object"
    /\ unwrap(sent).result = [ok |-> FALSE, error |-> "Unsupported HTTP method"]

\* C18. The static headers of a built executor are the route's headers
\* together with the endpoint's defaults for the keys the route does not
\* have: a key of both carries the route's value. Every request the
\* executor sends carries them all, and carries no other header than
\* those and the ones taken from the arguments.
C18_RouteHeadersTakePrecedence ==
    is_some(executor) =>
        LET route == unwrap(executor).config.headers
            endpoint == unwrap(executor).service_cfg.headers
            static == Closure.static_headers
        IN /\ DOMAIN static = DOMAIN route \cup DOMAIN endpoint
           /\ \A k \in DOMAIN route : static[k] = route[k]
           /\ \A k \in DOMAIN endpoint \ DOMAIN route : static[k] = endpoint[k]
           /\ Dispatched =>
                 /\ \A k \in DOMAIN static :
                       <<k, static[k]>> \in SentRequest.headers
                 /\ \A h \in SentRequest.headers :
                       \/ h[1] \in DOMAIN static /\ h[2] = static[h[1]]
                       \/ h[1] \in unwrap(sent).header_keys

C18_Witness ==
    /\ Dispatched
    /\ unwrap(executor).config.headers = ("Accept" :> "route")
    /\ unwrap(executor).service_cfg.headers = ("Accept" :> "endpoint")
    /\ <<"Accept", "route">> \in SentRequest.headers
    /\ <<"Accept", "endpoint">> \notin SentRequest.headers

\* ---------------------------------------------------------------------
\* C19 (as claimed). exists_in_mcp is true when no routes are configured;
\* otherwise it is decided by the first route entry whose path equals the
\* given path once a single trailing slash is stripped from each: true iff
\* that entry's methods contain the method, compared case-insensitively;
\* and false when no entry's path matches.
C19_ExistsInMcpStripsOneSlash ==
    (is_some(answer) /\ unwrap(answer).call = "exists_in_mcp") =>
        LET a == unwrap(answer)
            routes == adjustments.routes
            strip_one(p) ==
                Path(p.stem, IF p.slashes > 0 THEN p.slashes - 1 ELSE 0)
            matches ==
                {i \in 1..Len(routes) :
                    strip_one(routes[i].path) = strip_one(a.route)}
            first == CHOOSE i \in matches : \A k \in matches : i <= k
        IN a.value =
              IF routes = <<>> THEN TRUE
              ELSE IF matches = {} THEN FALSE
              ELSE \E j \in 1..Len(routes[first].methods) :
                       to_uppercase(routes[first].methods[j])
                           = to_uppercase(a.method)

\* C20 (as claimed). get_description returns an override text whenever
\* some description entry has exactly the path and an update with exactly
\* the method, and the original otherwise.
C20_AnyMatchingEntryOverrides ==
    (is_some(answer) /\ unwrap(answer).call = "get_description") =>
        LET a == unwrap(answer)
            ds == adjustments.descriptions
            overrides ==
                {ds[i].updates[j].new_description :
                    <<i, j>> \in
                        {<<x, y>> \in (1..Len(ds)) \X (1..2) :
                            /\ y <= Len(ds[x].updates)
                            /\ ds[x].path = a.route
                            /\ ds[x].updates[y].method = a.method}}
        IN IF overrides # {} THEN a.value \in overrides
           ELSE a.value = a.original_desc

\* C20 (amended). get_description consults only the first description
\* entry whose path is exactly the given path: it returns the text of that
\* entry's first update whose method is exactly the given method, and the
\* original when there is no such entry or that entry has no such update,
\* whatever later entries hold.
C20_FirstPathEntryDecides ==
    (is_some(answer) /\ unwrap(answer).call = "get_description") =>
        LET a == unwrap(answer)
            ds == adjustments.descriptions
            entries == {i \in 1..Len(ds) : ds[i].path = a.route}
            first == CHOOSE i \in entries : \A k \in entries : i <= k
            updates ==
                {j \in 1..Len(ds[first].updates) :
                    ds[first].updates[j].method = a.method}
            firstUpdate == CHOOSE j \in updates : \A k \in updates : j <= k
        IN a.value =
              IF entries = {} THEN a.original_desc
              ELSE IF updates = {} THEN a.original_desc
              ELSE ds[first].updates[firstUpdate].new_description

C20_Witness ==
    /\ is_some(answer)
    /\ unwrap(answer).call = "get_description"
    /\ Len(adjustments.descriptions) = 2
    /\ unwrap(answer).route = Path("/users", 0)
    /\ unwrap(answer).method = "POST"
    /\ unwrap(answer).value = "new post"

\* ---------------------------------------------------------------------
\* Vocabulary of the properties of load
\* ---------------------------------------------------------------------
NoAdjustments == [descriptions |-> <<>>, routes |-> <<>>]
\* the value the Adjuster would give to the latest query if `adj` were
\* what it holds
AnswerOver(adj) ==
    IF unwrap(answer).call = "exists_in_mcp"
    THEN exists_in_mcp(adj, unwrap(answer).route, unwrap(answer).method)
    ELSE get_description(adj, unwrap(answer).route, unwrap(answer).method,
                         unwrap(answer).original_desc)

\* C21 (as claimed). A load with the empty path or with a path to no file
\* succeeds and leaves the Adjuster with no routes and no descriptions,
\* whatever was loaded before.
C21_EmptyOrMissingLeavesEmpty ==
    (is_some(lastLoad)
     /\ unwrap(lastLoad).input.file_path \in {"empty", "missing"}) =>
        /\ unwrap(lastLoad).ok
        /\ adjustments = NoAdjustments

\* C22. After a load that succeeds on a file, whatever was loaded before,
\* the Adjuster holds exactly that file's routes and descriptions, and
\* exists_in_mcp and get_description answer as if that file alone had been
\* loaded into a new Adjuster.
C22_ReloadReplacesWholesale ==
    (is_some(lastLoad) /\ unwrap(lastLoad).ok
     /\ unwrap(lastLoad).input.file_path = "file") =>
        LET b == from_yaml(unwrap(lastLoad).input.data).value IN
        /\ adjustments = b
        /\ is_some(answer) =>
              unwrap(answer).value =
                  AnswerOver(load(NoAdjustments, unwrap(lastLoad).input).adjustments)

C22_Witness ==
    /\ is_some(lastLoad) /\ unwrap(lastLoad).ok
    /\ unwrap(lastLoad).input.file_path = "file"
    /\ unwrap(lastLoad).before.routes =
           <<RouteSelection(Path("/users", 0), <<"GET">>)>>
    /\ adjustments.routes =
           <<RouteSelection(Path("/users", 0), <<"POST">>),
             RouteSelection(Path("/users", 1), <<"GET">>)>>
    /\ is_some(answer)
    /\ unwrap(answer).call = "exists_in_mcp"
    /\ unwrap(answer).route = Path("/users", 0)
    /\ unwrap(answer).method = "GET"
    /\ unwrap(answer).value = FALSE
    /\ AnswerOver(unwrap(lastLoad).before) = TRUE

\* C23 (as claimed). A load of an existing, readable file succeeds unless
\* the file is not parseable YAML: it succeeds on a file with only routes,
\* with only descriptions, and on an empty file.
C23_AbsentSectionsLoadAsEmpty ==
    (is_some(lastLoad) /\ unwrap(lastLoad).input.file_path = "file"
     /\ unwrap(lastLoad).input.data.syntax # "not_yaml") =>
        unwrap(lastLoad).ok

\* C30. A load that returns an error leaves the Adjuster holding what it
\* held before the call, and exists_in_mcp and get_description answer as
\* they would have before it.
C30_FailedLoadChangesNothing ==
    (is_some(lastLoad) /\ ~unwrap(lastLoad).ok) =>
        /\ adjustments = unwrap(lastLoad).before
        /\ is_some(answer) =>
              unwrap(answer).value = AnswerOver(unwrap(lastLoad).before)

C30_Witness ==
    /\ is_some(lastLoad) /\ ~unwrap(lastLoad).ok
    /\ unwrap(lastLoad).input.file_path = "file"
    /\ unwrap(lastLoad).input.data.syntax = "not_yaml"
    /\ unwrap(lastLoad).before.routes =
           <<RouteSelection(Path("/users", 0), <<"GET">>)>>
    /\ is_some(answer)
    /\ unwrap(answer).call = "exists_in_mcp"
    /\ unwrap(answer).route = Path("/items", 0)
    /\ unwrap(answer).value = FALSE

\* ---------------------------------------------------------------------
\* C28 (as claimed). Every output run writes in answer to a message that
\* parsed carries that message's id and exactly one of result and error.
C28_AnswerEchoesIdWithResultOrError ==
    \A j \in 1..Len(outputs) :
        ~Malformed(outSrc[j]) =>
            /\ outputs[j].id = consumed[outSrc[j]].id
            /\ HasResult(outputs[j]) # HasError(outputs[j])

\* C29. A tools/call without id that names a registered tool invokes that
\* tool's executor, once, with the arguments of the call, and no output is
\* ever written for it.
C29_NotificationCallStillExecutes ==
    \A k \in 1..Len(consumed) :
        (Notification(k) /\ WellFormedCall(k)
         /\ consumed[k].params.name \in RegisteredNames) =>
            /\ Cardinality(InvocationsFor(k)) = 1
            /\ \A i \in InvocationsFor(k) :
                  /\ invoked[i].name = consumed[k].params.name
                  /\ Some(RegisteredTool(invoked[i].name, invoked[i].executor))
                         = get(tools, consumed[k].params.name)
                  /\ invoked[i].params = executor_params(consumed[k].params)
            /\ AnswersTo(k) = {}

C29_Witness ==
    /\ pc = "done"
    /\ Len(consumed) = 1
    /\ Notification(1) /\ WellFormedCall(1)
    /\ consumed[1].params.name = "get_b"
    /\ Len(invoked) = 1
    /\ invoked[1].src = 1
    /\ invoked[1].executor = "r3"
    /\ invoked[1].outcome.ok
    /\ outputs = <<>>

\* ---------------------------------------------------------------------
\* C24 (as claimed). Once init or parse_reader has returned Ok, however
\* many times they were called, the compiled tool list has exactly one
\* entry for each (path, method) of the document, method among the five,
\* that the Adjuster accepts, and no other entry.
C24_OneEntryPerAcceptedRoute ==
    LET d == unwrap(doc)
        DocPairs ==
            {pm \in {<<d[i].path, FiveMethods[j]>> :
                        i \in DOMAIN d, j \in DOMAIN FiveMethods} :
                \E i \in DOMAIN d :
                    /\ d[i].path = pm[1]
                    /\ ~d[i].item.ref
                    /\ pm[2] \in DOMAIN d[i].item.ops}
        EntriesFor(path, method) ==
            {i \in DOMAIN route_tools :
                /\ route_tools[i].route_config.path = path
                /\ route_tools[i].route_config.method = method}
    IN (is_some(lastParse) /\ unwrap(lastParse).ok) =>
        /\ \A pm \in DocPairs :
              Cardinality(EntriesFor(pm[1], pm[2])) =
                  IF exists_in_mcp(adjustments, pm[1], pm[2]) THEN 1 ELSE 0
        /\ \A i \in DOMAIN route_tools :
              <<route_tools[i].route_config.path,
                route_tools[i].route_config.method>> \in DocPairs

\* C25 (as claimed). The name of every compiled tool is the normalized
\* (path, method): GET /users/{id} is named get_users__id__, and every
\* name has at most 60 characters, all from [A-Za-z0-9_-].
C25_ToolNamesNormalized ==
    \A i \in DOMAIN route_tools :
        LET route == route_tools[i].route_config
            name == route_tools[i].tool.name
        IN /\ name = normalize_tool_name(route.path, route.method)
           /\ (route.path = Path("/users/{id}", 0) /\ route.method = "GET")
                 => name = <<"g", "e", "t", "_", "u", "s", "e", "r", "s",
                             "_", "_", "i", "d", "_", "_">>
           /\ Len(name) <= 60
           /\ \A k \in DOMAIN name :
                 name[k] \in
                   {"a", "b", "c", "d", "e", "f", "g", "h", "i", "j", "k",
                    "l", "m", "n", "o", "p", "q", "r", "s", "t", "u", "v",
                    "w", "x", "y", "z", "A", "B", "C", "D", "E", "F", "G",
                    "H", "I", "J", "K", "L", "M", "N", "O", "P", "Q", "R",
                    "S", "T", "U", "V", "W", "X", "Y", "Z", "0", "1", "2",
                    "3", "4", "5", "6", "7", "8", "9", "_", "-"}

\* C26 (as claimed). The input schema of every compiled tool is an object
\* schema with a "properties" key.
C26_InputSchemaHasProperties ==
    \A i \in DOMAIN route_tools :
        /\ route_tools[i].tool.input_schema.type = "object"
        /\ "properties" \in DOMAIN route_tools[i].tool.input_schema

\* ---------------------------------------------------------------------
\* C27. No task holds the lock of the ToolHandler while it waits for its
\* executor, and a task that has reached the lock gets through its locked
\* section (to its own executor, or to its result) even if the tasks
\* suspended in their executors never return.
C27_CallsDoNotBlockEachOther ==
    /\ [](\A t \in Tasks : calls[t].pc = "awaiting" => lock # Some(t))
    /\ \A t \in Tasks :
          (calls[t].pc = "waiting") ~> (calls[t].pc \in {"awaiting", "done"})
    /\ \A t \in Tasks :
          (calls[t].pc = "waiting" /\ calls[t].call.op = "list_tools")
              ~> (calls[t].pc = "done")

\* t1 is suspended in its executor; t2 arrived after that, called a tool
\* and has its result
C27_Witness ==
    /\ calls["t1"].pc = "awaiting"
    /\ calls["t2"].pc = "done"
    /\ "t1" \in calls["t2"].during
    /\ calls["t2"].call.op = "call_tool"
    /\ calls["t2"].result.ok
    /\ lock = None

====
